---------------------------- MODULE Spec2Model ----------------------------
(***************************************************************************)
(* Model of drupal-to-static-html: CrawlerConfig and Crawler (crawl,       *)
(* fetchPage, extractUrls, resolveUrl, isSameDomain, queueUrl,             *)
(* getDepthForUrl), HtmlUtils and PostProcessor (process, rewriteUrls),    *)
(* FileManager (initializeSnapshot, savePage, saveAssetAtPath, saveAsset,  *)
(* saveMetadata, cleanupFailedSnapshot) and runCrawl, which drives them.   *)
(*                                                                         *)
(* Representation.  A URL string is a record [valid, host, port, path]:    *)
(* host is the sequence of dot-separated labels of the hostname, port the  *)
(* port text ("" when absent), path the sequence of path segments; the     *)
(* empty string '' that resolveUrl returns for a dropped reference is the  *)
(* record NoUrl, which `new URL()` refuses to parse.  An HTML document is  *)
(* the sequence of its URL-bearing elements; the empty document is the     *)
(* empty string, which JavaScript treats as falsy.  HTTP statuses and the  *)
(* 'binary-asset' tag of fetchPage are strings.  A file-system path is the *)
(* sequence of its segments from the file-system root.                     *)
(***************************************************************************)
EXTENDS Integers, Sequences, FiniteSets, TLC

(***************************************************************************)
(* Bounds of the model.                                                    *)
(***************************************************************************)
MaxDepthBound == 1
MaxPagesBound == 3
MaxRetriesBound == 1
MaxCalls == 3
MaxClock == 2
MaxNodes == 2

(***************************************************************************)
(* Program constants: the defaults of CrawlerConfig's constructor.         *)
(***************************************************************************)
DefaultCrawlDelay == 500
DefaultMaxDepth == 0
DefaultMaxPages == 10000
DefaultMaxRetries == 3

(***************************************************************************)
(* Hostnames, paths and URLs.                                              *)
(***************************************************************************)
ExampleCom == <<"example", "com">>
WwwExampleCom == <<"www", "example", "com">>
OtherOrg == <<"other", "org">>

NoUrl == [valid |-> FALSE, host |-> <<>>, port |-> "", path |-> <<>>]

Url(h, prt, p) == [valid |-> TRUE, host |-> h, port |-> prt, path |-> p]

(* The extension of a path segment: the text after its last dot. *)
ExtOf(seg) ==
    CASE seg = "logo.png" -> "png"
      [] seg = "r.pdf"    -> "pdf"
      [] seg = "R.PDF"    -> "PDF"
      [] seg = "s.css"    -> "css"
      [] seg = "m.js"     -> "js"
      [] seg = "favicon.ico" -> "ico"
      [] seg = "pic.png"  -> "png"
      [] seg = "banner.png" -> "png"
      [] seg = "my%20pic.png" -> "png"
      [] seg = "index.html" -> "html"
      [] seg = "page.html" -> "html"
      [] seg = "d41d.html" -> "html"
      [] seg = "missing.css" -> "css"
      [] OTHER            -> ""

(* String.prototype.toLowerCase on the extensions above and on the texts,  *)
(* class names and path segments of the sample markup.                     *)
ToLowerCase(s) ==
    CASE s = "PDF" -> "pdf"
      [] s = "JATOS" -> "jatos"
      [] s = "JATOS-frame" -> "jatos-frame"
      [] s = "Join the JATOS study" -> "join the jatos study"
      [] s = "Manage experiments" -> "manage experiments"
      [] s = "SignUp" -> "signup"
      [] s = "Dashboard" -> "dashboard"
      [] s = "Log in" -> "log in"
      [] s = "Edit" -> "edit"
      [] s = "About" -> "about"
      [] s = "LinkedIn" -> "linkedin"
      [] OTHER     -> s

(* /jatos/, /experiment/, /signup/ and /edit|delete|revise|unpublish/ on   *)
(* the strings above.                                                      *)
ContainsJatos(s) == s \in {"jatos", "jatos-frame", "join the jatos study"}
ContainsExperiment(s) == s \in {"experiment", "manage experiments"}
ContainsSignup(s) == s = "signup"
ContainsAdminWord(s) == s = "edit"

(* Crawler.BINARY_EXTENSIONS: the alternatives of the regular expression. *)
BinaryExtensionNames ==
    {"zip", "gz", "tar", "7z", "rar", "bz2", "pdf", "doc", "docx", "xls",
     "xlsx", "ppt", "pptx", "odt", "ods", "odp", "csv", "mp3", "mp4", "wav",
     "ogg", "webm", "avi", "mov", "mkv", "flac", "aac", "woff", "woff2",
     "ttf", "eot", "otf"}

(* BINARY_EXTENSIONS.test(pathname): case-insensitive, anchored at the end. *)
BINARY_EXTENSIONS_test(path) ==
    /\ path # <<>>
    /\ ToLowerCase(ExtOf(path[Len(path)])) \in BinaryExtensionNames

(***************************************************************************)
(* CrawlerConfig.  An environment value is <<>> when the variable is unset *)
(* and <<v>> when it is set to v.                                          *)
(***************************************************************************)
OrDefault(v, d) == IF v = <<>> THEN d ELSE v[1]

(* `env.X || d` on a text value: the empty string is falsy as well. *)
OrDefaultText(v, d, empty) == IF v = <<>> \/ v[1] = empty THEN d ELSE v[1]

(* SITE_HOST set to the empty string. *)
EmptyHost == [name |-> <<>>, port |-> ""]

NoHostname == [defined |-> FALSE, name |-> <<>>]

(* The constructor assigns no siteHostname property: reading it yields      *)
(* undefined, modelled as NoHostname.                                      *)
CrawlerConfig(env) ==
    [siteHost     |-> OrDefaultText(env.SITE_HOST,
                                    [name |-> <<"localhost">>, port |-> ""], EmptyHost),
     siteIp       |-> OrDefaultText(env.SITE_IP, "127.0.0.1", ""),
     crawlDelay   |-> OrDefault(env.CRAWL_DELAY, DefaultCrawlDelay),
     maxDepth     |-> OrDefault(env.MAX_DEPTH, DefaultMaxDepth),
     maxPages     |-> OrDefault(env.MAX_PAGES, DefaultMaxPages),
     maxRetries   |-> OrDefault(env.MAX_RETRIES, DefaultMaxRetries),
     siteHostname |-> NoHostname]

(* validate(): TRUE when no error is thrown. *)
validate(c) ==
    /\ c.siteHost.name # <<>>
    /\ c.siteIp # ""
    /\ ~(c.crawlDelay < 0)
    /\ ~(c.maxRetries < 0)

(* A CrawlerConfig instance on which the property read by isSameDomain has  *)
(* been set to the port-stripped SITE_HOST.                                *)
WithSiteHostname(c) ==
    [c EXCEPT !.siteHostname = [defined |-> TRUE, name |-> c.siteHost.name]]

(* getSiteUrl() + '/' *)
StartingUrl(c) == Url(c.siteHost.name, c.siteHost.port, <<>>)

(* The environments explored: SITE_HOST=example.com with every limit      *)
(* within the bounds, SITE_HOST=www.example.com:8080 with one setting,     *)
(* SITE_HOST and SITE_IP set to the empty string, and a negative           *)
(* CRAWL_DELAY.                                                            *)
Envs ==
    [SITE_HOST   : {<<[name |-> ExampleCom, port |-> ""]>>},
     SITE_IP     : {<<"192.0.2.1">>},
     CRAWL_DELAY : {<<0>>},
     MAX_DEPTH   : {<<>>} \cup {<<d>> : d \in 1..MaxDepthBound},
     MAX_PAGES   : {<<n>> : n \in 0..MaxPagesBound},
     MAX_RETRIES : {<<r>> : r \in -1..MaxRetriesBound}]
    \cup
    [SITE_HOST   : {<<[name |-> WwwExampleCom, port |-> "8080"]>>},
     SITE_IP     : {<<"192.0.2.1">>},
     CRAWL_DELAY : {<<0>>},
     MAX_DEPTH   : {<<>>},
     MAX_PAGES   : {<<2>>},
     MAX_RETRIES : {<<0>>}]
    \cup
    [SITE_HOST   : {<<EmptyHost>>, <<[name |-> ExampleCom, port |-> ""]>>},
     SITE_IP     : {<<"">>},
     CRAWL_DELAY : {<<0>>},
     MAX_DEPTH   : {<<>>},
     MAX_PAGES   : {<<1>>},
     MAX_RETRIES : {<<0>>}]
    \cup
    [SITE_HOST   : {<<[name |-> ExampleCom, port |-> ""]>>},
     SITE_IP     : {<<"192.0.2.1">>},
     CRAWL_DELAY : {<<-1>>},
     MAX_DEPTH   : {<<>>},
     MAX_PAGES   : {<<1>>},
     MAX_RETRIES : {<<0>>}]


(***************************************************************************)
(* Markup.  A document is the sequence of the nodes of its body, a node    *)
(* [tag, ref, rel, id, cls, text, attrs, kids]: ref is the value of the    *)
(* element's href (a, link), src (img, script, iframe) or action (form)    *)
(* attribute, of kind "none" when it has none; rel, id and cls are its     *)
(* rel, id and class attributes, text the text it holds itself, attrs its  *)
(* other attributes and kids its child nodes.  A comment is a node with    *)
(* the tag "#comment".  The pages a server sends are sequences of          *)
(* elements without children.  A reference is [kind, host, path]:          *)
(* "relative" is a path that starts with a slash, "document" a path that   *)
(* does not, "absolute" an https URL without port, query or fragment.      *)
(* "special" is a mailto: reference, or the javascript: reference whose    *)
(* text is the one segment of its path.                                    *)
(***************************************************************************)
Rel(p) == [kind |-> "relative", host |-> <<>>, path |-> p]
Doc(p) == [kind |-> "document", host |-> <<>>, path |-> p]
Abs(h, p) == [kind |-> "absolute", host |-> h, path |-> p]
EmptyRef == [kind |-> "empty", host |-> <<>>, path |-> <<>>]
FragmentRef == [kind |-> "fragment", host |-> <<>>, path |-> <<>>]
SpecialRef == [kind |-> "special", host |-> <<>>, path |-> <<>>]
ScriptRef == [kind |-> "special", host |-> <<>>, path |-> <<"javascript:void(0)">>]
MalformedRef == [kind |-> "malformed", host |-> <<>>, path |-> <<>>]
NoRef == [kind |-> "none", host |-> <<>>, path |-> <<>>]

Elem(t, r) ==
    [tag |-> t, ref |-> r, rel |-> "", id |-> "", cls |-> "", text |-> "",
     attrs |-> {}, kids |-> <<>>]
LinkElem(r, relation) == [Elem("link", r) EXCEPT !.rel = relation]

(* An element without URL attribute that holds the nodes kids. *)
Node(t, kids) == [Elem(t, NoRef) EXCEPT !.kids = kids]
Comment == Elem("#comment", NoRef)

LogoPath == <<"sites", "default", "files", "logo.png">>

(* <a href="/about">, <img src="/sites/default/files/logo.png">, <a href="#top"> *)
PageRoot ==
    <<Elem("a", Rel(<<"about">>)), Elem("img", Rel(LogoPath)), Elem("a", FragmentRef)>>

(* <a href="/b">, <a href="/">, <a href="https://other.org/x">,             *)
(* <script src="https://other.org/m.js">                                   *)
PageA ==
    <<Elem("a", Rel(<<"b">>)), Elem("a", Rel(<<>>)),
      Elem("a", Abs(OtherOrg, <<"x">>)), Elem("script", Abs(OtherOrg, <<"m.js">>))>>

(* <a href="/about">, <a href="/R.PDF">, <form action="/c">,                   *)
(* <link rel="stylesheet" href="/s.css">, <link rel="icon" href="/favicon.ico">, *)
(* <a href="mailto:...">                                                   *)
PageB ==
    <<Elem("a", Rel(<<"about">>)), Elem("a", Rel(<<"R.PDF">>)), Elem("form", Rel(<<"c">>)),
      LinkElem(Rel(<<"s.css">>), "stylesheet"), LinkElem(Rel(<<"favicon.ico">>), "icon"),
      Elem("a", SpecialRef)>>

(* <a href="https://www.example.com/about">, <a href="https://example.com/b">, *)
(* <img src="">, <a href="http://[">,                                      *)
(* <img src="sites/default/files/logo.png">                                *)
PageW ==
    <<Elem("a", Abs(WwwExampleCom, <<"about">>)), Elem("a", Abs(ExampleCom, <<"b">>)),
      Elem("img", EmptyRef), Elem("a", MalformedRef), Elem("img", Doc(LogoPath))>>

(* <a href="/">, <img src="pic.png">, <img src="/banner.png">,             *)
(* <img src="https://example.com/sites/default/files/logo.png">            *)
PageAbout ==
    <<Elem("a", Rel(<<>>)), Elem("img", Doc(<<"pic.png">>)),
      Elem("img", Rel(<<"banner.png">>)), Elem("img", Abs(ExampleCom, LogoPath))>>

(* A body that is no markup: response.data is the value axios parsed from  *)
(* a JSON body, not a string.                                              *)
JsonBody == <<Elem("#json", NoRef)>>

(* The bodies a server may send; <<>> is the empty body. *)
Htmls == {<<>>, PageRoot, PageA, PageB, PageW, JsonBody}

ContentTypeHeaders ==
    {"", "Text/HTML; charset=utf-8", "application/xhtml+xml", "application/pdf"}

(* (header || '').split(';')[0].trim().toLowerCase() *)
ContentTypeOf(header) ==
    CASE header = "Text/HTML; charset=utf-8" -> "text/html"
      [] OTHER -> header

ContentDispositionHeaders == {"", "Attachment; filename=r.pdf"}

(* /\battachment\b/.test((header || '').toLowerCase()) *)
IsAttachment(header) == header = "Attachment; filename=r.pdf"

HttpStatuses == {"200", "404"}

(* What httpClient.get resolves with (validateStatus accepts every status). *)
Responses ==
    [status : HttpStatuses, data : Htmls,
     contentType : ContentTypeHeaders, contentDisposition : ContentDispositionHeaders]

(* JavaScript truthiness of response.data: the empty string is falsy. *)
Truthy(data) == data # <<>>

(* The example site: the root page links to /about and shows the logo,     *)
(* /about is an HTML page, every other path is not found.  A second site   *)
(* answers the root URL with a PDF document.                               *)
SiteResponses(url) ==
    IF url.path = <<>>
    THEN {[status |-> "200", data |-> PageRoot,
           contentType |-> "Text/HTML; charset=utf-8", contentDisposition |-> ""],
          [status |-> "200", data |-> PageRoot,
           contentType |-> "application/pdf", contentDisposition |-> ""]}
    ELSE IF url.path = <<"about">>
    THEN {[status |-> "200", data |-> PageAbout,
           contentType |-> "Text/HTML; charset=utf-8", contentDisposition |-> ""]}
    ELSE {[status |-> "404", data |-> <<>>, contentType |-> "", contentDisposition |-> ""]}

(* <a href="/about">, <a href="/about/"> *)
DrupalRoot == <<Elem("a", Rel(<<"about">>)), Elem("a", Rel(<<"about", "">>))>>

(* <a href="/">, <img src="/about/index.html"> *)
DrupalAbout == <<Elem("a", Rel(<<>>)), Elem("img", Rel(<<"about", "index.html">>))>>

(* A site that answers a path with and without trailing slash with the    *)
(* same page, as Drupal does.                                              *)
DrupalSiteResponses(url) ==
    IF url.path = <<>>
    THEN {[status |-> "200", data |-> DrupalRoot,
           contentType |-> "Text/HTML; charset=utf-8", contentDisposition |-> ""]}
    ELSE IF url.path \in {<<"about">>, <<"about", "">>}
    THEN {[status |-> "200", data |-> DrupalAbout,
           contentType |-> "Text/HTML; charset=utf-8", contentDisposition |-> ""]}
    ELSE {[status |-> "404", data |-> <<>>, contentType |-> "", contentDisposition |-> ""]}

(* The bytes an asset download may deliver. *)
Contents == {"bytesA", "bytesB"}

(* What axios.get resolves with for an asset: a status and the body. *)
AssetResponses == [status : HttpStatuses, data : Contents]

(* The environment of the example run: maxDepth 0 (unset), maxPages 10. *)
RunEnvs ==
    [SITE_HOST   : {<<[name |-> ExampleCom, port |-> ""]>>},
     SITE_IP     : {<<"192.0.2.1">>},
     CRAWL_DELAY : {<<0>>},
     MAX_DEPTH   : {<<>>},
     MAX_PAGES   : {<<10>>},
     MAX_RETRIES : {<<0>>}]

(***************************************************************************)
(* State of one Crawler instance running crawl(), and of the FileManager   *)
(* and the run of runCrawl around it.                                      *)
(***************************************************************************)
VARIABLES
    processEnv,      \* process.env
    server,          \* what answers the GETs: "any" server, the example "site"
                     \* or the "drupal" site
    fileManager,     \* the FileManager instance
    disk,            \* the file system
    run,             \* locals and position of runCrawl, with its history
    result,          \* what the last FileManager call returned
    config,          \* this.config
    visitedUrls,     \* this.visitedUrls
    queuedUrls,      \* this.queuedUrls, in insertion order
    crawledPages,    \* this.crawledPages
    failedUrls,      \* this.failedUrls
    assetUrls,       \* this.assetUrls, in insertion order
    urlDepthMap,     \* this.urlDepthMap
    processedCount,  \* local of crawl()
    pc,              \* position in crawl(): "new", "rejected", "loop", "fetch", "done"
    cur,             \* locals url, depth of the loop body and attempt of fetchPage
    log,             \* history: per URL, times added to visitedUrls, GETs issued,
                     \* GETs that threw, GETs that were answered
    clock,           \* the wall clock, in seconds
    other,           \* the FileManager instance of another run on the same disk
    report,          \* what the last run of runVerify or runClean gave
    processor        \* a PostProcessor with the locals of its process()

vars == <<processEnv, server, fileManager, disk, run, result, config, visitedUrls,
          queuedUrls, crawledPages, failedUrls, assetUrls, urlDepthMap,
          processedCount, pc, cur, log, clock, other, report, processor>>

(* The variables crawl() leaves alone. *)
outerVars == <<processEnv, server, fileManager, disk, run, result, clock, other, report,
               processor>>

(* What the server may answer to a GET of url. *)
Served(url) ==
    CASE server = "any"    -> Responses
      [] server = "drupal" -> DrupalSiteResponses(url)
      [] OTHER             -> SiteResponses(url)

NoCur == [url |-> NoUrl, depth |-> 0, attempt |-> 0]

NoLog == [adds |-> 0, gets |-> 0, throws |-> 0, answers |-> 0, discards |-> 0]

LogOf(u) == IF u \in DOMAIN log THEN log[u] ELSE NoLog

(* Set.prototype.add on an insertion-ordered set. *)
SetAdd(s, x) == IF \E i \in DOMAIN s : s[i] = x THEN s ELSE Append(s, x)

Has(s, x) == \E i \in DOMAIN s : s[i] = x

RECURSIVE AddAll(_, _)
AddAll(s, xs) == IF xs = <<>> THEN s ELSE AddAll(SetAdd(s, Head(xs)), Tail(xs))

(***************************************************************************)
(* Crawler's pure methods.                                                 *)
(***************************************************************************)
(* The directory of a URL path: the path without its last segment. *)
DirOf(path) == IF path = <<>> THEN <<>> ELSE SubSeq(path, 1, Len(path) - 1)

(* new URL(href, baseUrl).href, '' when the reference is dropped or        *)
(* new URL throws.                                                         *)
resolveUrl(ref, baseUrl) ==
    CASE ref.kind = "empty"     -> NoUrl
      [] ref.kind = "fragment"  -> NoUrl
      [] ref.kind = "special"   -> NoUrl
      [] ref.kind = "relative"  -> Url(baseUrl.host, baseUrl.port, ref.path)
      [] ref.kind = "absolute"  -> Url(ref.host, "", ref.path)
      [] ref.kind = "document"  -> Url(baseUrl.host, baseUrl.port,
                                       DirOf(baseUrl.path) \o ref.path)
      [] OTHER                  -> NoUrl

(* String.prototype.replace(/^www\./, '') on a hostname. *)
StripWww(host) ==
    IF Len(host) > 1 /\ host[1] = "www" THEN Tail(host) ELSE host

(* isSameDomain: new URL(url) throws on '', and undefined.replace throws;   *)
(* both land in the catch block.                                           *)
isSameDomain(c, url) ==
    IF ~url.valid THEN FALSE
    ELSE IF ~c.siteHostname.defined THEN FALSE
    ELSE StripWww(url.host) = StripWww(c.siteHostname.name)

(* The three selector passes of extractUrls. *)
RECURSIVE AnchorPass(_, _, _, _)
AnchorPass(c, elems, pageUrl, acc) ==
    IF elems = <<>> THEN acc
    ELSE LET e == Head(elems)
             absoluteUrl == resolveUrl(e.ref, pageUrl)
             next == IF e.tag # "a" \/ ~isSameDomain(c, absoluteUrl) THEN acc
                     ELSE IF BINARY_EXTENSIONS_test(absoluteUrl.path)
                          THEN [acc EXCEPT !.assets = SetAdd(@, absoluteUrl)]
                          ELSE [acc EXCEPT !.urls = SetAdd(@, absoluteUrl)]
         IN  AnchorPass(c, Tail(elems), pageUrl, next)

RECURSIVE AssetPass(_, _, _, _)
AssetPass(c, elems, pageUrl, acc) ==
    IF elems = <<>> THEN acc
    ELSE LET e == Head(elems)
             selected == \/ e.tag \in {"img", "script"}
                         \/ e.tag = "link" /\ e.rel = "stylesheet"
             absoluteUrl == resolveUrl(e.ref, pageUrl)
             next == IF selected /\ isSameDomain(c, absoluteUrl)
                     THEN [acc EXCEPT !.assets = SetAdd(@, absoluteUrl)]
                     ELSE acc
         IN  AssetPass(c, Tail(elems), pageUrl, next)

RECURSIVE FormPass(_, _, _, _)
FormPass(c, elems, pageUrl, acc) ==
    IF elems = <<>> THEN acc
    ELSE LET e == Head(elems)
             absoluteUrl == resolveUrl(e.ref, pageUrl)
             next == IF e.tag = "form" /\ isSameDomain(c, absoluteUrl)
                     THEN [acc EXCEPT !.urls = SetAdd(@, absoluteUrl)]
                     ELSE acc
         IN  FormPass(c, Tail(elems), pageUrl, next)

(* cheerio.load(html) throws: html is not a string. *)
LoadThrows(html) == html = JsonBody

(* extractUrls: its catch block logs the error, and the two sets are       *)
(* returned as they are, empty when cheerio.load has thrown.               *)
extractUrls(c, html, pageUrl) ==
    IF LoadThrows(html) THEN [urls |-> <<>>, assets |-> <<>>]
    ELSE FormPass(c, html, pageUrl,
             AssetPass(c, html, pageUrl,
                 AnchorPass(c, html, pageUrl, [urls |-> <<>>, assets |-> <<>>])))

getDepthForUrl(dm, url) == IF url \in DOMAIN dm THEN dm[url] ELSE 0

(* A queueUrl that puts the URL in front of the pending ones. *)
queueUrl_Front(visited, state, url, depth) ==
    IF url \notin visited /\ ~Has(state.queued, url)
    THEN [queued |-> <<url>> \o state.queued,
          depths |-> (url :> depth) @@ state.depths]
    ELSE state

(* queueUrl: the new [queued, depths]. *)
queueUrl(visited, state, url, depth) ==
    IF url \notin visited /\ ~Has(state.queued, url)
    THEN [queued |-> Append(state.queued, url),
          depths |-> (url :> depth) @@ state.depths]
    ELSE state

(* A forEach that adds every extracted link to the pending set, unguarded. *)
RECURSIVE EnqueueAll_Unguarded(_, _, _, _)
EnqueueAll_Unguarded(visited, state, urls, depth) ==
    IF urls = <<>> THEN state
    ELSE EnqueueAll_Unguarded(visited,
             [queued |-> SetAdd(state.queued, Head(urls)),
              depths |-> (Head(urls) :> depth) @@ state.depths],
             Tail(urls), depth)

(* newUrls.urls.forEach(...) of crawl(). *)
RECURSIVE EnqueueAll(_, _, _, _)
EnqueueAll(visited, state, urls, depth) ==
    IF urls = <<>> THEN state
    ELSE LET newUrl == Head(urls)
             next == IF newUrl \notin visited /\ ~Has(state.queued, newUrl)
                     THEN queueUrl(visited, state, newUrl, depth)
                     ELSE state
         IN  EnqueueAll(visited, next, Tail(urls), depth)

(* The outcome of fetchPage once httpClient.get has resolved. *)
ClassifyResponse(response) ==
    IF response.status = "200" /\ Truthy(response.data)
    THEN LET contentType == ContentTypeOf(response.contentType)
             isHtml == contentType = "" \/ contentType = "text/html"
                       \/ contentType = "application/xhtml+xml"
             isAttachment == IsAttachment(response.contentDisposition)
         IN  IF ~isHtml \/ isAttachment
             THEN [html |-> <<>>, status |-> "binary-asset"]
             ELSE [html |-> response.data, status |-> "200"]
    ELSE [html |-> <<>>, status |-> response.status]

(* The outcome of fetchPage once the last attempt has thrown. *)
ExhaustedResult == [html |-> <<>>, status |-> "0"]

(* A try block around an extractUrls without catch: the error reaches the  *)
(* catch block of crawl() after the page has been pushed.                  *)
HandlePage_Uncaught(page) ==
    IF page.status = "200" /\ LoadThrows(page.html)
    THEN /\ crawledPages' = Append(crawledPages,
                [url |-> cur.url, html |-> page.html, status |-> page.status,
                 depth |-> cur.depth])
         /\ failedUrls' = Append(failedUrls, [url |-> cur.url, status |-> "0"])
         /\ UNCHANGED <<queuedUrls, urlDepthMap, assetUrls>>
    ELSE IF page.status = "200"
    THEN LET newUrls == extractUrls(config, page.html, cur.url)
             st == EnqueueAll(visitedUrls,
                              [queued |-> queuedUrls, depths |-> urlDepthMap],
                              newUrls.urls, cur.depth + 1)
         IN  /\ crawledPages' = Append(crawledPages,
                    [url |-> cur.url, html |-> page.html, status |-> page.status,
                     depth |-> cur.depth])
             /\ queuedUrls' = st.queued
             /\ urlDepthMap' = st.depths
             /\ assetUrls' = AddAll(assetUrls, newUrls.assets)
             /\ UNCHANGED failedUrls
    ELSE IF page.status = "binary-asset"
    THEN /\ assetUrls' = SetAdd(assetUrls, cur.url)
         /\ UNCHANGED <<crawledPages, queuedUrls, urlDepthMap, failedUrls>>
    ELSE /\ failedUrls' = Append(failedUrls, [url |-> cur.url, status |-> page.status])
         /\ UNCHANGED <<crawledPages, queuedUrls, urlDepthMap, assetUrls>>

(* A try block whose binary-asset branch only logs. *)
HandlePage_BinaryDropped(page) ==
    IF page.status = "200"
    THEN LET newUrls == extractUrls(config, page.html, cur.url)
             st == EnqueueAll(visitedUrls,
                              [queued |-> queuedUrls, depths |-> urlDepthMap],
                              newUrls.urls, cur.depth + 1)
         IN  /\ crawledPages' = Append(crawledPages,
                    [url |-> cur.url, html |-> page.html, status |-> page.status,
                     depth |-> cur.depth])
             /\ queuedUrls' = st.queued
             /\ urlDepthMap' = st.depths
             /\ assetUrls' = AddAll(assetUrls, newUrls.assets)
             /\ UNCHANGED failedUrls
    ELSE IF page.status = "binary-asset"
    THEN UNCHANGED <<crawledPages, queuedUrls, urlDepthMap, failedUrls, assetUrls>>
    ELSE /\ failedUrls' = Append(failedUrls, [url |-> cur.url, status |-> page.status])
         /\ UNCHANGED <<crawledPages, queuedUrls, urlDepthMap, assetUrls>>

(* The try block of crawl() given the page fetchPage returned. *)
HandlePage(page) ==
    IF page.status = "200"
    THEN LET newUrls == extractUrls(config, page.html, cur.url)
             st == EnqueueAll(visitedUrls,
                              [queued |-> queuedUrls, depths |-> urlDepthMap],
                              newUrls.urls, cur.depth + 1)
         IN  /\ crawledPages' = Append(crawledPages,
                    [url |-> cur.url, html |-> page.html, status |-> page.status,
                     depth |-> cur.depth])
             /\ queuedUrls' = st.queued
             /\ urlDepthMap' = st.depths
             /\ assetUrls' = AddAll(assetUrls, newUrls.assets)
             /\ UNCHANGED failedUrls
    ELSE IF page.status = "binary-asset"
    THEN /\ assetUrls' = SetAdd(assetUrls, cur.url)
         /\ UNCHANGED <<crawledPages, queuedUrls, urlDepthMap, failedUrls>>
    ELSE /\ failedUrls' = Append(failedUrls, [url |-> cur.url, status |-> page.status])
         /\ UNCHANGED <<crawledPages, queuedUrls, urlDepthMap, assetUrls>>

Bump(u, field) == (u :> [LogOf(u) EXCEPT ![field] = @ + 1]) @@ log

(***************************************************************************)
(* HtmlUtils and PostProcessor, on references and documents.               *)
(***************************************************************************)
(* String.prototype.replace(/\/sites\/default\/files\//g, '/files/') on a  *)
(* path: slashBefore tells whether a slash precedes the first segment.  A  *)
(* match consumes the slash that follows "files", so the segment after a   *)
(* replacement cannot start another match.                                 *)
RECURSIVE RewriteSegs(_, _)
RewriteSegs(segs, slashBefore) ==
    IF segs = <<>> THEN <<>>
    ELSE IF /\ slashBefore
            /\ Len(segs) >= 4
            /\ SubSeq(segs, 1, 3) = <<"sites", "default", "files">>
         THEN <<"files", segs[4]>> \o RewriteSegs(SubSeq(segs, 5, Len(segs)), TRUE)
         ELSE <<Head(segs)>> \o RewriteSegs(Tail(segs), TRUE)

(* HtmlUtils.rewriteDrupalPaths on a reference. *)
rewriteDrupalPaths(ref) ==
    CASE ref.kind \in {"relative", "absolute"} ->
             [ref EXCEPT !.path = RewriteSegs(ref.path, TRUE)]
      [] ref.kind = "document" ->
             [ref EXCEPT !.path = RewriteSegs(ref.path, FALSE)]
      [] OTHER -> ref

(* HtmlUtils.isSpecialUrl *)
isSpecialUrl(ref) == ref.kind \in {"fragment", "special"}

(* HtmlUtils.isAbsoluteUrl *)
isAbsoluteUrl(ref) == ref.kind \in {"absolute", "malformed"}

(* HtmlUtils.isSameDomain(url, siteDomain): extractDomain yields the       *)
(* hostname, or null when new URL throws; siteDomain is the SITE_HOST text, *)
(* which equals a hostname only when it carries no port.                   *)
HtmlUtils_isSameDomain(ref, siteDomain) ==
    /\ ref.kind = "absolute"
    /\ siteDomain.port = ""
    /\ StripWww(ref.host) = StripWww(siteDomain.name)

(* HtmlUtils.toRelativeUrl: pathname + search + hash of a same-domain      *)
(* absolute URL, every other reference unchanged.                          *)
toRelativeUrl(ref, siteDomain) ==
    IF ~isAbsoluteUrl(ref) THEN ref
    ELSE IF ~HtmlUtils_isSameDomain(ref, siteDomain) THEN ref
    ELSE Rel(ref.path)

(* The node is an element: what a selector can match. *)
IsElement(n) == n.tag # "#comment"

(* :empty : an element without element children and without text; child   *)
(* comments do not count.                                                  *)
IsEmpty(n) == n.text = "" /\ \A i \in DOMAIN n.kids : ~IsElement(n.kids[i])

EventHandlers == {"onclick", "onerror", "onload"}
LayoutAttributes == {"align", "valign", "bgcolor"}

(* The path segments in which a pattern is looked for in an href, src or   *)
(* action value.                                                           *)
SegsOf(ref) ==
    IF ref.kind \in {"relative", "document", "absolute"} THEN ref.path ELSE <<>>

(* The href test of removeAdminElements:                                   *)
(* /^\/admin|\/user\/logout|\/user\/login|^\/edit|^\/delete|^\/revisions/  *)
IsAdminLink(e) ==
    /\ e.tag = "a"
    /\ \/ /\ e.ref.kind = "relative"
          /\ e.ref.path # <<>>
          /\ e.ref.path[1] \in {"admin", "edit", "delete", "revisions"}
       \/ /\ e.ref.kind \in {"relative", "absolute"}
          /\ \E i \in 1..(Len(e.ref.path) - 1) :
                /\ e.ref.path[i] = "user"
                /\ e.ref.path[i + 1] \in {"login", "logout"}
       \/ /\ e.ref.kind = "document"
          /\ \E i \in 2..(Len(e.ref.path) - 1) :
                /\ e.ref.path[i] = "user"
                /\ e.ref.path[i + 1] \in {"login", "logout"}

(* The second test of removeAdminElements: the link's text and rel. *)
IsAdminLabelled(e) ==
    /\ e.tag = "a"
    /\ ContainsAdminWord(ToLowerCase(e.text))
    /\ e.rel = "admin"

(* The selections of the processing steps.  "script" is                    *)
(* script[src], script[type="text/javascript"]; "admin" the list           *)
(* adminSelectors without its last entry; "a" the anchors that the loop of *)
(* removeAdminElements removes, and the list items it removes for them;    *)
(* "*" the nodes that the loop of cleanupHtml removes: it visits the       *)
(* elements and removes those of type comment.                             *)
Selected(sel, n) ==
    /\ IsElement(n)
    /\ CASE sel = "script" ->
                /\ n.tag = "script"
                /\ (n.ref.kind # "none" \/ "type=text/javascript" \in n.attrs)
         [] sel = "admin" ->
                \/ n.id \in {"admin-bar", "user-menu", "login-form"}
                \/ n.cls \in {"admin-toolbar", "navbar-admin", "admin-menu",
                              "user-account-menu", "login-form"}
         [] sel = "a" ->
                \/ IsAdminLink(n)
                \/ IsAdminLabelled(n)
                \/ n.tag = "li" /\ \E i \in DOMAIN n.kids : IsAdminLink(n.kids[i])
         [] sel = "p:empty" -> n.tag = "p" /\ IsEmpty(n)
         [] sel = "div:empty" -> n.tag = "div" /\ IsEmpty(n)
         [] sel = "*" -> n.tag = "#comment"
         [] OTHER -> FALSE

(* $(sel).remove(): the selected nodes leave the document with all they    *)
(* hold; the selection is made before anything is removed.                 *)
RECURSIVE Remove(_, _)
Remove(nodes, sel) ==
    IF nodes = <<>> THEN <<>>
    ELSE LET n == Head(nodes)
         IN  IF Selected(sel, n) THEN Remove(Tail(nodes), sel)
             ELSE <<[n EXCEPT !.kids = Remove(@, sel)]>> \o Remove(Tail(nodes), sel)

(* $('[role="complementary"] nav').remove() *)
RECURSIVE RemoveNav(_, _)
RemoveNav(nodes, inside) ==
    IF nodes = <<>> THEN <<>>
    ELSE LET n == Head(nodes)
         IN  IF inside /\ n.tag = "nav" THEN RemoveNav(Tail(nodes), inside)
             ELSE <<[n EXCEPT !.kids =
                        RemoveNav(@, inside \/ "role=complementary" \in n.attrs)]>>
                  \o RemoveNav(Tail(nodes), inside)

(* removeAttr for each of the names, on every element. *)
RECURSIVE StripAttrs(_, _)
StripAttrs(nodes, names) ==
    IF nodes = <<>> THEN <<>>
    ELSE <<[Head(nodes) EXCEPT !.attrs = @ \ names,
                               !.kids = StripAttrs(@, names)]>>
         \o StripAttrs(Tail(nodes), names)

(* HtmlUtils.sanitizeHtml: script elements that carry a src or the         *)
(* JavaScript type are removed, the event handlers stripped.               *)
sanitizeHtml(html) == StripAttrs(Remove(html, "script"), EventHandlers)

(* The body of the each() callbacks of rewriteUrls for one attribute value. *)
RewriteRef(ref, siteDomain) ==
    IF ref.kind \in {"none", "empty"} \/ isSpecialUrl(ref) THEN ref
    ELSE toRelativeUrl(rewriteDrupalPaths(ref), siteDomain)

(* PostProcessor.rewriteUrls: href and src attributes; a form's action is  *)
(* neither.                                                                *)
RECURSIVE rewriteUrls(_, _)
rewriteUrls(html, siteDomain) ==
    IF html = <<>> THEN <<>>
    ELSE LET e == Head(html)
             rewritten == IF e.tag \in {"a", "link", "img", "script", "iframe"}
                          THEN [e EXCEPT !.ref = RewriteRef(@, siteDomain)]
                          ELSE e
         IN  <<[rewritten EXCEPT !.kids = rewriteUrls(@, siteDomain)]>>
             \o rewriteUrls(Tail(html), siteDomain)

(* HtmlUtils.createJatosReplacement: a div that holds a paragraph with a   *)
(* link to the LinkedIn profile.                                           *)
JatosReplacement ==
    [Node("div",
        <<[Node("p",
              <<[Elem("a", Abs(<<"linkedin", "com">>, <<>>))
                     EXCEPT !.text = "LinkedIn", !.rel = "noopener noreferrer"]>>)
              EXCEPT !.text = "Experiments have concluded."]>>)
        EXCEPT !.cls = "jatos-replacement"]

(* The tests of replaceJatosForms: iframe[src*="jatos"], iframe[class*=    *)
(* "jatos"]; /jatos|experiment|signup/i on a form's action + class;        *)
(* /jatos|experiment/ on an anchor's href + text.toLowerCase().            *)
MatchesJatos(e) ==
    CASE e.tag = "iframe" ->
             \/ \E i \in DOMAIN SegsOf(e.ref) : ContainsJatos(SegsOf(e.ref)[i])
             \/ ContainsJatos(e.cls)
      [] e.tag = "form" ->
             \E s \in {SegsOf(e.ref)[i] : i \in DOMAIN SegsOf(e.ref)} \cup {e.cls} :
                \/ ContainsJatos(ToLowerCase(s))
                \/ ContainsExperiment(ToLowerCase(s))
                \/ ContainsSignup(ToLowerCase(s))
      [] e.tag = "a" ->
             \E s \in {SegsOf(e.ref)[i] : i \in DOMAIN SegsOf(e.ref)}
                      \cup {ToLowerCase(e.text)} :
                ContainsJatos(s) \/ ContainsExperiment(s)
      [] OTHER -> FALSE

(* One each() loop of replaceJatosForms, over the elements named tag. *)
RECURSIVE ReplaceMatching(_, _)
ReplaceMatching(nodes, tag) ==
    IF nodes = <<>> THEN <<>>
    ELSE LET n == Head(nodes)
         IN  IF n.tag = tag /\ MatchesJatos(n)
             THEN <<JatosReplacement>> \o ReplaceMatching(Tail(nodes), tag)
             ELSE <<[n EXCEPT !.kids = ReplaceMatching(@, tag)]>>
                  \o ReplaceMatching(Tail(nodes), tag)

(* PostProcessor.replaceJatosForms *)
replaceJatosForms(html) ==
    ReplaceMatching(ReplaceMatching(ReplaceMatching(html, "iframe"), "form"), "a")

(* PostProcessor.removeAdminElements *)
removeAdminElements(html) == Remove(RemoveNav(Remove(html, "admin"), FALSE), "a")

(* PostProcessor.cleanupHtml *)
cleanupHtml(html) ==
    StripAttrs(Remove(Remove(Remove(html, "p:empty"), "div:empty"), "*"),
               LayoutAttributes)

(* PostProcessor.process: falsy input is returned as it is. *)
process(html, siteDomain) ==
    IF ~Truthy(html) THEN html
    ELSE cleanupHtml(removeAdminElements(replaceJatosForms(
             rewriteUrls(sanitizeHtml(html), siteDomain))))

(***************************************************************************)
(* The file system and Node's path module.  A disk is [dirs, files]: the   *)
(* set of directories and the content of every file, both keyed by path.   *)
(* A content is [kind, html, bytes, meta].                                 *)
(***************************************************************************)
EmptyDisk == [dirs |-> {}, files |-> <<>>]

PageContent(html) == [kind |-> "page", html |-> html, bytes |-> "", meta |-> <<>>]
AssetContent(bytes) == [kind |-> "asset", html |-> <<>>, bytes |-> bytes, meta |-> <<>>]
MetadataContent(data) == [kind |-> "metadata", html |-> <<>>, bytes |-> "", meta |-> <<data>>]

IsPrefix(p, q) == Len(p) <= Len(q) /\ SubSeq(q, 1, Len(p)) = p

Prefixes(p) == {SubSeq(p, 1, n) : n \in 1..Len(p)}

(* path.normalize and path.resolve: "." is dropped, ".." removes the       *)
(* segment before it; at the front of a relative path ".." stays, at the   *)
(* root of an absolute path it is dropped.                                 *)
RECURSIVE NormalizeSegs(_, _, _)
NormalizeSegs(segs, acc, absolute) ==
    IF segs = <<>> THEN acc
    ELSE LET h == Head(segs)
             next == IF h = "." THEN acc
                     ELSE IF h # ".." THEN Append(acc, h)
                     ELSE IF acc # <<>> /\ acc[Len(acc)] # ".."
                          THEN SubSeq(acc, 1, Len(acc) - 1)
                     ELSE IF absolute THEN acc
                     ELSE Append(acc, h)
         IN  NormalizeSegs(Tail(segs), next, absolute)

(* A logical path is [slashes, segs]: the number of leading slashes and    *)
(* the segments.  relPath.replace(/^\//, '') removes one leading slash.    *)
StripLeadingSlash(relPath) ==
    [relPath EXCEPT !.slashes = IF @ > 0 THEN @ - 1 ELSE 0]

(* path.normalize(p) *)
path_normalize(p) ==
    [p EXCEPT !.segs = NormalizeSegs(p.segs, <<>>, p.slashes > 0)]

(* path.resolve(dir, p) for an absolute dir *)
path_resolve(dir, p) ==
    IF p.slashes > 0 THEN NormalizeSegs(p.segs, <<>>, TRUE)
    ELSE NormalizeSegs(p.segs, dir, TRUE)

(* A prefix test against the parent of the root. *)
StartsWithRoot_Parent(fullPath, root) == IsPrefix(DirOf(root), fullPath)

(* fullPath.startsWith(path.resolve(this.snapshotDir) + path.sep) *)
StartsWithRoot(fullPath, root) == IsPrefix(root, fullPath) /\ Len(fullPath) > Len(root)

(* fs.ensureDirSync(path.dirname(p)) followed by fs.writeFileSync(p, ...)  *)
(* throws when a directory on the way is a file or p is a directory.       *)
CanWrite(d, p) ==
    /\ p # <<>>
    /\ p \notin d.dirs
    /\ \A q \in Prefixes(DirOf(p)) : q \notin DOMAIN d.files

WriteFile(d, p, content) ==
    [dirs  |-> d.dirs \cup Prefixes(DirOf(p)),
     files |-> (p :> content) @@ d.files]

(* crypto.createHash('md5').update(x).digest('hex') on the contents used. *)
Md5(bytes) ==
    CASE bytes = "bytesA" -> "0f2c"
      [] bytes = "bytesB" -> "9a41"
      [] OTHER            -> "d41d"

(***************************************************************************)
(* FileManager.  A method is an operator from the instance fm and the disk *)
(* d to [fm, disk, result]; a result is [outcome, value] with outcome      *)
(* "returned", "null" or "threw".  snapshotDir = <<>> stands for null.     *)
(***************************************************************************)
OutputDir == <<"output">>

(* The names getTimestamp() gives to consecutive seconds. *)
TimestampNames ==
    <<"2025-02-27_14-30-45", "2025-02-27_14-30-46", "2025-02-27_14-30-47",
      "2025-02-27_14-30-48", "2025-02-27_14-30-49">>

(* A timestamp format without the seconds. *)
getTimestamp_Minutes(now) == "2025-02-27_14-30"

(* getTimestamp() when the clock reads now: year, month, day, hour, minute *)
(* and second of the local time.                                           *)
getTimestamp(now) == TimestampNames[now + 1]

NewFileManager ==
    [snapshotDir |-> <<>>, assetMap |-> <<>>, pageCount |-> 0, assetCount |-> 0]

NoValue ==
    [shape |-> "none", url |-> NoUrl, relPath |-> <<>>, fullPath |-> <<>>,
     contentHash |-> ""]

Returned(v) == [outcome |-> "returned", value |-> v]
ReturnedNull == [outcome |-> "null", value |-> NoValue]
Threw == [outcome |-> "threw", value |-> NoValue]

initializeSnapshot(fm, d, now) ==
    LET snapshotDir == Append(OutputDir, getTimestamp(now))
        made == {snapshotDir} \cup
                {Append(snapshotDir, sub) : sub \in {"files", "css", "js", "images"}}
    IN  [fm     |-> [fm EXCEPT !.snapshotDir = snapshotDir],
         disk   |-> [d EXCEPT !.dirs = @ \cup Prefixes(snapshotDir) \cup made],
         result |-> Returned([NoValue EXCEPT !.shape = "dir", !.fullPath = snapshotDir])]

(* getPageFilePath: the pathname without a trailing slash; 'index.html'    *)
(* for the root, the path itself when it has an extension, and             *)
(* '<path>/index.html' otherwise; 'pages/<md5>.html' when new URL throws.  *)
(* pathname.replace(/\/$/, ''): a path that ends in a slash is a path with  *)
(* an empty last segment.                                                  *)
WithoutTrailingSlash(segs) ==
    IF segs # <<>> /\ segs[Len(segs)] = ""
    THEN SubSeq(segs, 1, Len(segs) - 1)
    ELSE segs

(* A getPageFilePath that makes a directory of every path. *)
getPageFilePath_AlwaysIndex(url) ==
    IF ~url.valid THEN <<"pages", "d41d.html">>
    ELSE Append(WithoutTrailingSlash(url.path), "index.html")

getPageFilePath(url) ==
    IF ~url.valid THEN <<"pages", "d41d.html">>
    ELSE LET pathname == WithoutTrailingSlash(url.path)
         IN  IF pathname = <<>> THEN <<"index.html">>
             ELSE IF ExtOf(pathname[Len(pathname)]) # "" THEN pathname
             ELSE Append(pathname, "index.html")

savePage(fm, d, url, html) ==
    IF fm.snapshotDir = <<>> THEN [fm |-> fm, disk |-> d, result |-> Threw]
    ELSE LET filePath == getPageFilePath(url)
             fullPath == fm.snapshotDir \o filePath
         IN  IF ~CanWrite(d, fullPath)
             THEN [fm |-> fm, disk |-> d, result |-> Threw]
             ELSE [fm     |-> [fm EXCEPT !.pageCount = @ + 1],
                   disk   |-> WriteFile(d, fullPath, PageContent(html)),
                   result |-> Returned([shape |-> "page", url |-> url,
                                        relPath |-> filePath, fullPath |-> fullPath,
                                        contentHash |-> ""])]

(* A traversal test that accepts every path. *)
IsSafePath_Always(fullPath, root) == TRUE

(* The traversal test of saveAssetAtPath. *)
IsSafePath(fullPath, root) == StartsWithRoot(fullPath, root)

(* A content-hash lookup that never finds anything. *)
assetMap_has_Never(fm, contentHash) == FALSE

(* this.assetMap.has(contentHash) *)
assetMap_has(fm, contentHash) == contentHash \in DOMAIN fm.assetMap

saveAssetAtPath(fm, d, relPath, fileBuffer) ==
    IF fm.snapshotDir = <<>> THEN [fm |-> fm, disk |-> d, result |-> Threw]
    ELSE LET normalized == path_normalize(StripLeadingSlash(relPath))
             fullPath == path_resolve(fm.snapshotDir, normalized)
             contentHash == Md5(fileBuffer)
             record == [shape |-> "atPath", url |-> NoUrl, relPath |-> normalized.segs,
                        fullPath |-> <<>>, contentHash |-> contentHash]
         IN  IF ~IsSafePath(fullPath, fm.snapshotDir)
             THEN [fm |-> fm, disk |-> d, result |-> ReturnedNull]
             ELSE IF assetMap_has(fm, contentHash)
             THEN [fm |-> fm, disk |-> d,
                   result |-> Returned(fm.assetMap[contentHash])]
             ELSE IF ~CanWrite(d, fullPath)
             THEN [fm |-> fm, disk |-> d, result |-> Threw]
             ELSE [fm     |-> [fm EXCEPT !.assetMap = (contentHash :> record) @@ @,
                                        !.assetCount = @ + 1],
                   disk   |-> WriteFile(d, fullPath, AssetContent(fileBuffer)),
                   result |-> Returned(record)]

(* getAssetDirectory(mimeType, url) *)
getAssetDirectory(mimeType, url) ==
    LET ext == IF url.valid /\ url.path # <<>> THEN ExtOf(url.path[Len(url.path)]) ELSE ""
    IN  IF mimeType \in {"image/png"} THEN "images"
        ELSE IF ext = "css" THEN "css"
        ELSE IF mimeType \in {"application/javascript"} \/ ext = "js" THEN "js"
        ELSE "files"

(* filename.replace(/[^a-zA-Z0-9._\-]/g, '_') on the file names used. *)
SanitizeFilename(name) ==
    CASE name = "my%20pic.png" -> "my_20pic.png"
      [] OTHER                 -> name

(* getExtensionForMimeType(mimeType): the exact entry of mimeMap, else the *)
(* first entry whose type before the slash occurs in mimeType.             *)
getExtensionForMimeType(mimeType) ==
    CASE mimeType = "image/png"                -> ".png"
      [] mimeType = "text/css"                 -> ".css"
      [] mimeType = "application/javascript"   -> ".js"
      [] mimeType = "application/octet-stream" -> ".js"
      [] OTHER                                 -> ""

(* getAssetFilename(url, mimeType) *)
getAssetFilename(url, mimeType) ==
    IF ~url.valid THEN "asset-d41d8cd98f00" \o getExtensionForMimeType(mimeType)
    ELSE IF url.path = <<>>
    THEN SanitizeFilename("asset-6666cd76" \o getExtensionForMimeType(mimeType))
    ELSE SanitizeFilename(url.path[Len(url.path)])

saveAsset(fm, d, assetUrl, fileBuffer, mimeType) ==
    IF fm.snapshotDir = <<>> THEN [fm |-> fm, disk |-> d, result |-> Threw]
    ELSE LET contentHash == Md5(fileBuffer)
             filePath == <<getAssetDirectory(mimeType, assetUrl),
                           getAssetFilename(assetUrl, mimeType)>>
             fullPath == fm.snapshotDir \o filePath
             record == [shape |-> "byUrl", url |-> assetUrl, relPath |-> filePath,
                        fullPath |-> <<>>, contentHash |-> contentHash]
         IN  IF assetMap_has(fm, contentHash)
             THEN [fm |-> fm, disk |-> d,
                   result |-> Returned(fm.assetMap[contentHash])]
             ELSE IF ~CanWrite(d, fullPath)
             THEN [fm |-> fm, disk |-> d, result |-> Threw]
             ELSE [fm     |-> [fm EXCEPT !.assetMap = (contentHash :> record) @@ @,
                                        !.assetCount = @ + 1],
                   disk   |-> WriteFile(d, fullPath, AssetContent(fileBuffer)),
                   result |-> Returned(record)]

(* saveMetadata: pagesCount and assetsCount come from the instance, the    *)
(* other fields from the caller.                                           *)
saveMetadata(fm, d, metadata) ==
    IF fm.snapshotDir = <<>> THEN [fm |-> fm, disk |-> d, result |-> Threw]
    ELSE LET metadataFile == Append(fm.snapshotDir, ".metadata.json")
             data == [pagesCount       |-> fm.pageCount,
                      assetsCount      |-> fm.assetCount,
                      crawledPages     |-> metadata.crawledPages,
                      savedPages       |-> metadata.savedPages,
                      downloadedAssets |-> metadata.downloadedAssets,
                      failedUrls       |-> metadata.failedUrls]
         IN  IF ~CanWrite(d, metadataFile)
             THEN [fm |-> fm, disk |-> d, result |-> Threw]
             ELSE [fm     |-> fm,
                   disk   |-> WriteFile(d, metadataFile, MetadataContent(data)),
                   result |-> Returned(NoValue)]

(* fs.readdirSync(dir): the names directly under dir. *)
readdirSync(d, dir) ==
    {p[Len(dir) + 1] : p \in {q \in d.dirs \cup DOMAIN d.files :
                                 IsPrefix(dir, q) /\ Len(q) > Len(dir)}}

(* fs.removeSync(dir) *)
removeSync(d, dir) ==
    [dirs  |-> {q \in d.dirs : ~IsPrefix(dir, q)},
     files |-> [q \in {r \in DOMAIN d.files : ~IsPrefix(dir, r)} |-> d.files[q]]]

(* A test that takes a snapshot holding nothing but the directories made   *)
(* by initializeSnapshot for incomplete.                                   *)
IsIncomplete_OnlySubdirs(entries) ==
    entries \subseteq {"files", "css", "js", "images"}

(* files.length < 2 *)
IsIncomplete(entries) == Cardinality(entries) < 2

cleanupFailedSnapshot(fm, d) ==
    IF fm.snapshotDir # <<>> /\ fm.snapshotDir \in d.dirs
    THEN IF IsIncomplete(readdirSync(d, fm.snapshotDir))
         THEN removeSync(d, fm.snapshotDir)
         ELSE d
    ELSE d

(***************************************************************************)
(* runCrawl.  run holds its position (pc: "threw" when the CrawlerConfig   *)
(* constructor's error left it, "try" inside the try block, "direct" when  *)
(* the FileManager is driven without runCrawl, "returned" at the end), its *)
(* locals (pageIndex and assetIndex are the positions of the two for       *)
(* loops) and its history: the items whose error was caught, the asset     *)
(* URLs answered with 200, whether an exception escaped to the outer catch *)
(* block, the calls of cleanupFailedSnapshot and of the                    *)
(* FileManager's methods, and per content the record returned by the first *)
(* call that saved it.  exitCode is -1 until runCrawl returns.             *)
(***************************************************************************)
NewRun ==
    [pc |-> "try", pageIndex |-> 0, assetIndex |-> 0, savedCount |-> 0,
     assetCount |-> 0, exitCode |-> -1, pageErrors |-> 0, assetErrors |-> 0,
     downloaded |-> {}, cleanups |-> 0, escaped |-> FALSE, calls |-> 0,
     firstRecord |-> <<>>]

NoPath == [slashes |-> 0, segs |-> <<>>]

(* No mode has run yet. *)
NoReport == [mode |-> "none", code |-> -1, snapshot |-> <<>>, issues |-> {},
             warnings |-> {}, removed |-> {}]

(* No PostProcessor is at work. *)
NoProcessor == [siteDomain |-> EmptyHost, html |-> <<>>, dom |-> <<>>, at |-> "none"]

NoCall ==
    [method |-> "none", url |-> NoUrl, relPath |-> NoPath, bytes |-> "",
     mimeType |-> ""]

(* The value of result after a call. *)
Called(call, r) == [call |-> call, outcome |-> r.outcome, value |-> r.value]

NoResult == Called(NoCall, ReturnedNull)

(* The history of first saves after a call of saveAssetAtPath or saveAsset. *)
Remember(first, call, r) ==
    IF r.outcome = "returned" /\ call.bytes \notin DOMAIN first
    THEN (call.bytes :> r.value) @@ first
    ELSE first

(***************************************************************************)
(* Init: runCrawl is about to enter its try block: the CrawlerConfig, the  *)
(* FileManager with its snapshot, the PostProcessor and the Crawler have   *)
(* been constructed; or the CrawlerConfig constructor has thrown.  The     *)
(* CrawlerConfig instance is either as the constructor leaves it or has    *)
(* siteHostname set.                                                       *)
(***************************************************************************)
InitWith(envs, srv) ==
    /\ processEnv \in envs
    /\ server = srv
    /\ LET c == CrawlerConfig(processEnv)
           snap == initializeSnapshot(NewFileManager, EmptyDisk, 0)
       IN  IF validate(c)
           THEN /\ config \in {c, WithSiteHostname(c)}
                /\ pc = "new"
                /\ fileManager = snap.fm
                /\ disk = snap.disk
                /\ run = NewRun
           ELSE /\ config = c
                /\ pc = "rejected"
                /\ fileManager = NewFileManager
                /\ disk = EmptyDisk
                /\ run = [NewRun EXCEPT !.pc = "threw"]
    /\ result = NoResult
    /\ visitedUrls = {}
    /\ queuedUrls = <<>>
    /\ crawledPages = <<>>
    /\ failedUrls = <<>>
    /\ assetUrls = <<>>
    /\ urlDepthMap = <<>>
    /\ processedCount = 0
    /\ cur = NoCur
    /\ log = <<>>
    /\ clock = 0
    /\ other = NewFileManager
    /\ report = NoReport
    /\ processor = NoProcessor

Init == InitWith(Envs, "any")

(* crawl() up to the loop: queueUrl(startingUrl, 0). *)
Crawl_Start ==
    /\ pc = "new"
    /\ LET st == queueUrl(visitedUrls, [queued |-> queuedUrls, depths |-> urlDepthMap],
                          StartingUrl(config), 0)
       IN  /\ queuedUrls' = st.queued
           /\ urlDepthMap' = st.depths
    /\ processedCount' = 0
    /\ pc' = "loop"
    /\ UNCHANGED <<config, visitedUrls, crawledPages, failedUrls, assetUrls, cur, log>>
    /\ UNCHANGED outerVars

(* A loop condition that admits one URL too many. *)
LoopCondition_OffByOne == Len(queuedUrls) > 0 /\ processedCount <= config.maxPages

(* The condition of the while loop. *)
LoopCondition == Len(queuedUrls) > 0 /\ processedCount < config.maxPages

(* A depth test that lets one level too many through. *)
DepthExceeded_OffByOne(c, depth) == c.maxDepth > 0 /\ depth > c.maxDepth + 1

(* The depth test of the loop body. *)
DepthExceeded(c, depth) == c.maxDepth > 0 /\ depth > c.maxDepth

(* A dequeue that reads the first pending URL and leaves it pending. *)
Dequeue_NoDelete(queued) == queued

(* queuedUrls.delete(url) for url = Array.from(queuedUrls)[0]. *)
Dequeue(queued) == Tail(queued)

(* A loop that does not await fetchPage: the next URL is taken while the   *)
(* request for the current one is outstanding.                             *)
Crawl_Dequeue_WithoutAwait ==
    /\ pc \in {"loop", "fetch"}
    /\ LoopCondition
    /\ LET url == Head(queuedUrls)
           depth == getDepthForUrl(urlDepthMap, url)
       IN  /\ queuedUrls' = Dequeue(queuedUrls)
           /\ IF DepthExceeded(config, depth)
              THEN /\ log' = Bump(url, "discards")
                   /\ UNCHANGED <<visitedUrls, processedCount, pc, cur>>
              ELSE IF url \in visitedUrls
              THEN UNCHANGED <<visitedUrls, processedCount, pc, cur, log>>
              ELSE /\ visitedUrls' = visitedUrls \cup {url}
                   /\ processedCount' = processedCount + 1
                   /\ cur' = [url |-> url, depth |-> depth, attempt |-> 0]
                   /\ log' = Bump(url, "adds")
                   /\ pc' = "fetch"
    /\ UNCHANGED <<config, crawledPages, failedUrls, assetUrls, urlDepthMap>>
    /\ UNCHANGED outerVars

(* One pass through the head of the loop body: dequeue, then discard for    *)
(* depth, discard as visited, or mark visited and call fetchPage.          *)
Crawl_Dequeue ==
    /\ pc = "loop"
    /\ LoopCondition
    /\ LET url == Head(queuedUrls)
           depth == getDepthForUrl(urlDepthMap, url)
       IN  /\ queuedUrls' = Dequeue(queuedUrls)
           /\ IF DepthExceeded(config, depth)
              THEN /\ log' = Bump(url, "discards")
                   /\ UNCHANGED <<visitedUrls, processedCount, pc, cur>>
              ELSE IF url \in visitedUrls
              THEN UNCHANGED <<visitedUrls, processedCount, pc, cur, log>>
              ELSE /\ visitedUrls' = visitedUrls \cup {url}
                   /\ processedCount' = processedCount + 1
                   /\ cur' = [url |-> url, depth |-> depth, attempt |-> 0]
                   /\ log' = Bump(url, "adds")
                   /\ pc' = "fetch"
    /\ UNCHANGED <<config, crawledPages, failedUrls, assetUrls, urlDepthMap>>
    /\ UNCHANGED outerVars

(* A retry test that allows one retry too many. *)
ShouldRetry_OffByOne(c, attempt) == attempt <= c.maxRetries

(* A catch block that gives up at once. *)
ShouldRetry_Never(c, attempt) == FALSE

(* The retry test of fetchPage's catch block. *)
ShouldRetry(c, attempt) == attempt < c.maxRetries

(* One attempt of fetchPage in which httpClient.get throws. *)
FetchPage_Throw ==
    /\ pc = "fetch"
    /\ log' = [Bump(cur.url, "gets") EXCEPT ![cur.url].throws = @ + 1]
    /\ IF ShouldRetry(config, cur.attempt)
       THEN /\ cur' = [cur EXCEPT !.attempt = @ + 1]
            /\ UNCHANGED <<crawledPages, queuedUrls, urlDepthMap, assetUrls,
                           failedUrls, pc>>
       ELSE /\ HandlePage(ExhaustedResult)
            /\ cur' = NoCur
            /\ pc' = "loop"
    /\ UNCHANGED <<config, visitedUrls, processedCount>>
    /\ UNCHANGED outerVars

(* A fetchPage that treats a non-200 answer like a thrown error. *)
FetchPage_Response_RetryNon200 ==
    /\ pc = "fetch"
    /\ \E response \in Served(cur.url) :
          IF response.status # "200" /\ ShouldRetry(config, cur.attempt)
          THEN /\ cur' = [cur EXCEPT !.attempt = @ + 1]
               /\ UNCHANGED <<crawledPages, queuedUrls, urlDepthMap, assetUrls,
                              failedUrls, pc>>
          ELSE /\ HandlePage(ClassifyResponse(response))
               /\ cur' = NoCur
               /\ pc' = "loop"
    /\ log' = [Bump(cur.url, "gets") EXCEPT ![cur.url].answers = @ + 1]
    /\ UNCHANGED <<config, visitedUrls, processedCount>>
    /\ UNCHANGED outerVars

(* One attempt of fetchPage in which httpClient.get resolves. *)
FetchPage_Response ==
    /\ pc = "fetch"
    /\ \E response \in Served(cur.url) :
          HandlePage(ClassifyResponse(response))
    /\ log' = [Bump(cur.url, "gets") EXCEPT ![cur.url].answers = @ + 1]
    /\ cur' = NoCur
    /\ pc' = "loop"
    /\ UNCHANGED <<config, visitedUrls, processedCount>>
    /\ UNCHANGED outerVars

(* The loop condition fails: crawl() returns. *)
Crawl_Exit ==
    /\ pc = "loop"
    /\ ~LoopCondition
    /\ pc' = "done"
    /\ UNCHANGED <<config, visitedUrls, queuedUrls, crawledPages, failedUrls,
                   assetUrls, urlDepthMap, processedCount, cur, log>>
    /\ UNCHANGED outerVars

Next ==
    \/ Crawl_Start
    \/ Crawl_Dequeue
    \/ FetchPage_Throw
    \/ FetchPage_Response
    \/ Crawl_Exit

Spec == Init /\ [][Next]_vars

(* crawl() awaits one promise at a time, and every awaited promise (the    *)
(* GET with its timeout, the backoff and rate-limit timers) settles.       *)
FairSpec == Spec /\ WF_vars(Next)

(***************************************************************************)
(* runCrawl after crawler.crawl() has returned.                            *)
(***************************************************************************)
(* A per-asset catch block that lets the error through to the outer one. *)
CatchAssetError_Rethrow(r) == [r EXCEPT !.pc = "returned", !.exitCode = 1]

(* The catch block of the asset loop: warn and go on with the next asset. *)
CatchAssetError(r) ==
    [r EXCEPT !.assetIndex = @ + 1, !.assetErrors = @ + 1]

(* The catch block of the page loop: warn and go on with the next page. *)
CatchPageError(r) ==
    [r EXCEPT !.pageIndex = @ + 1, !.pageErrors = @ + 1]

(* An outer catch block that reports success. *)
CatchCrawlFailed_ReturnsZero(r) ==
    [r EXCEPT !.pc = "returned", !.exitCode = 0, !.cleanups = @ + 1]

(* The outer catch block: cleanupFailedSnapshot() is called, 1 returned. *)
CatchCrawlFailed(r) ==
    [r EXCEPT !.pc = "returned", !.exitCode = 1, !.cleanups = @ + 1]

InPageLoop == pc = "done" /\ run.pc = "try" /\ run.pageIndex < Len(crawledPages)

InAssetLoop ==
    /\ pc = "done" /\ run.pc = "try"
    /\ run.pageIndex = Len(crawledPages)
    /\ run.assetIndex < Len(assetUrls)

(* A pipeline that writes the metadata as soon as the pages are saved. *)
AfterLoops_BeforeAssets ==
    /\ pc = "done" /\ run.pc = "try"
    /\ run.pageIndex = Len(crawledPages)

AfterLoops ==
    /\ pc = "done" /\ run.pc = "try"
    /\ run.pageIndex = Len(crawledPages)
    /\ run.assetIndex = Len(assetUrls)

PageCall(page, html) ==
    [NoCall EXCEPT !.method = "savePage", !.url = page.url]

(* One pass of the page loop: process, savePage, count; an error thrown by *)
(* savePage is caught.                                                     *)
Run_SavePage ==
    /\ InPageLoop
    /\ LET page == crawledPages[run.pageIndex + 1]
           processedHtml == process(page.html, config.siteHost)
           r == savePage(fileManager, disk, page.url, processedHtml)
       IN  /\ fileManager' = r.fm
           /\ disk' = r.disk
           /\ result' = Called(PageCall(page, processedHtml), r.result)
           /\ run' = IF r.result.outcome = "threw"
                     THEN CatchPageError(run)
                     ELSE [run EXCEPT !.pageIndex = @ + 1, !.savedCount = @ + 1]
    /\ UNCHANGED <<clock, other, report, processor, processEnv, server, config,
                   visitedUrls, queuedUrls, crawledPages, failedUrls, assetUrls,
                   urlDepthMap, processedCount, pc, cur, log>>

(* One pass of the page loop in which the write fails. *)
Run_SavePage_WriteFails ==
    /\ InPageLoop
    /\ LET page == crawledPages[run.pageIndex + 1]
       IN  result' = Called(PageCall(page, <<>>), Threw)
    /\ run' = CatchPageError(run)
    /\ UNCHANGED <<fileManager, disk>>
    /\ UNCHANGED <<clock, other, report, processor, processEnv, server, config,
                   visitedUrls, queuedUrls, crawledPages, failedUrls, assetUrls,
                   urlDepthMap, processedCount, pc, cur, log>>

(* The logical path runCrawl passes to saveAssetAtPath:                    *)
(* rewriteDrupalPaths(new URL(assetUrl).pathname).                         *)
AssetRelPath(assetUrl) == [slashes |-> 1, segs |-> RewriteSegs(assetUrl.path, TRUE)]

(* One pass of the asset loop in which axios.get resolves. *)
Run_Asset_Response ==
    /\ InAssetLoop
    /\ \E response \in AssetResponses :
          LET assetUrl == assetUrls[run.assetIndex + 1]
              rewrittenPath == AssetRelPath(assetUrl)
              call == [NoCall EXCEPT !.method = "saveAssetAtPath",
                                     !.url = assetUrl,
                                     !.relPath = rewrittenPath,
                                     !.bytes = response.data]
              r == saveAssetAtPath(fileManager, disk, rewrittenPath, response.data)
          IN  IF response.status = "200"
              THEN /\ fileManager' = r.fm
                   /\ disk' = r.disk
                   /\ result' = Called(call, r.result)
                   /\ run' = IF r.result.outcome = "threw"
                             THEN [CatchAssetError(run) EXCEPT
                                      !.downloaded = @ \cup {assetUrl}]
                             ELSE [run EXCEPT !.assetIndex = @ + 1,
                                              !.assetCount = @ + 1,
                                              !.downloaded = @ \cup {assetUrl},
                                              !.firstRecord =
                                                  Remember(@, call, r.result)]
              ELSE /\ run' = [run EXCEPT !.assetIndex = @ + 1]
                   /\ UNCHANGED <<fileManager, disk, result>>
    /\ UNCHANGED <<clock, other, report, processor, processEnv, server, config,
                   visitedUrls, queuedUrls, crawledPages, failedUrls, assetUrls,
                   urlDepthMap, processedCount, pc, cur, log>>

(* One pass of the asset loop in which axios.get rejects. *)
Run_Asset_Throws ==
    /\ InAssetLoop
    /\ run' = CatchAssetError(run)
    /\ UNCHANGED <<fileManager, disk, result>>
    /\ UNCHANGED <<clock, other, report, processor, processEnv, server, config,
                   visitedUrls, queuedUrls, crawledPages, failedUrls, assetUrls,
                   urlDepthMap, processedCount, pc, cur, log>>

(* The argument of saveMetadata. *)
RunMetadata ==
    [crawledPages     |-> Len(crawledPages),
     savedPages       |-> run.savedCount,
     downloadedAssets |-> run.assetCount,
     failedUrls       |-> Len(failedUrls)]

MetadataCall == [NoCall EXCEPT !.method = "saveMetadata"]

(* saveMetadata, the summary and `return 0`; an error thrown by            *)
(* saveMetadata lands in the outer catch block.                            *)
Run_SaveMetadata ==
    /\ AfterLoops
    /\ LET r == saveMetadata(fileManager, disk, RunMetadata)
       IN  /\ fileManager' = r.fm
           /\ result' = Called(MetadataCall, r.result)
           /\ IF r.result.outcome = "threw"
              THEN /\ disk' = cleanupFailedSnapshot(fileManager, r.disk)
                   /\ run' = [CatchCrawlFailed(run) EXCEPT !.escaped = TRUE]
              ELSE /\ disk' = r.disk
                   /\ run' = [run EXCEPT !.pc = "returned", !.exitCode = 0]
    /\ UNCHANGED <<clock, other, report, processor, processEnv, server, config,
                   visitedUrls, queuedUrls, crawledPages, failedUrls, assetUrls,
                   urlDepthMap, processedCount, pc, cur, log>>

(* saveMetadata's write fails: the outer catch block runs. *)
Run_SaveMetadata_WriteFails ==
    /\ AfterLoops
    /\ result' = Called(MetadataCall, Threw)
    /\ disk' = cleanupFailedSnapshot(fileManager, disk)
    /\ run' = [CatchCrawlFailed(run) EXCEPT !.escaped = TRUE]
    /\ UNCHANGED fileManager
    /\ UNCHANGED <<clock, other, report, processor, processEnv, server, config,
                   visitedUrls, queuedUrls, crawledPages, failedUrls, assetUrls,
                   urlDepthMap, processedCount, pc, cur, log>>

RunInit == InitWith(RunEnvs, "site")

RunNext ==
    \/ Crawl_Start
    \/ Crawl_Dequeue
    \/ FetchPage_Throw
    \/ FetchPage_Response
    \/ Crawl_Exit
    \/ Run_SavePage
    \/ Run_SavePage_WriteFails
    \/ Run_Asset_Response
    \/ Run_Asset_Throws
    \/ Run_SaveMetadata
    \/ Run_SaveMetadata_WriteFails

(* runCrawl against the example site. *)
RunSpec == RunInit /\ [][RunNext]_vars

(* runCrawl against the site that answers /about and /about/. *)
DrupalRunInit == InitWith(RunEnvs, "drupal")

DrupalRunSpec == DrupalRunInit /\ [][RunNext]_vars

(***************************************************************************)
(* A FileManager driven directly, by any sequence of at most MaxCalls      *)
(* calls of its save methods.                                              *)
(***************************************************************************)
(* '/files/logo.png', 'css/./s.css', '../escape.txt', '/' (the root        *)
(* itself), '//etc/passwd', 'files/../../escape.txt'                       *)
RelPaths ==
    {[slashes |-> 1, segs |-> <<"files", "logo.png">>],
     [slashes |-> 0, segs |-> <<"css", ".", "s.css">>],
     [slashes |-> 0, segs |-> <<"..", "escape.txt">>],
     [slashes |-> 1, segs |-> <<>>],
     [slashes |-> 2, segs |-> <<"etc", "passwd">>],
     [slashes |-> 0, segs |-> <<"files", "..", "..", "escape.txt">>]}

(* The asset URLs passed to saveAsset; NoUrl is a string new URL rejects. *)
AssetUrlArgs ==
    {Url(ExampleCom, "", LogoPath), Url(ExampleCom, "", <<"my%20pic.png">>), NoUrl}

MimeTypes == {"image/png", "application/octet-stream"}

(* The page URLs passed to savePage. *)
PageUrlArgs ==
    {Url(ExampleCom, "", <<>>), Url(ExampleCom, "", <<"about">>),
     Url(ExampleCom, "", <<"about", "">>),
     Url(ExampleCom, "", <<"files", "logo.png">>), NoUrl}

(* A FileManager has been constructed; no snapshot is initialised yet. *)
FMInit ==
    /\ processEnv \in RunEnvs
    /\ server = "site"
    /\ config = CrawlerConfig(processEnv)
    /\ pc = "new"
    /\ fileManager = NewFileManager
    /\ disk = EmptyDisk
    /\ run = [NewRun EXCEPT !.pc = "direct"]
    /\ result = NoResult
    /\ visitedUrls = {}
    /\ queuedUrls = <<>>
    /\ crawledPages = <<>>
    /\ failedUrls = <<>>
    /\ assetUrls = <<>>
    /\ urlDepthMap = <<>>
    /\ processedCount = 0
    /\ cur = NoCur
    /\ log = <<>>
    /\ clock = 0
    /\ other = NewFileManager
    /\ report = NoReport
    /\ processor = NoProcessor

(* The effect of a call on the instance, the disk and the history. *)
Apply(call, r) ==
    /\ fileManager' = r.fm
    /\ disk' = r.disk
    /\ result' = Called(call, r.result)
    /\ run' = [run EXCEPT !.calls = @ + 1,
                          !.firstRecord =
                              IF call.method \in {"saveAssetAtPath", "saveAsset"}
                              THEN Remember(@, call, r.result) ELSE @]
    /\ UNCHANGED <<clock, other, report, processor, processEnv, server, config,
                   visitedUrls, queuedUrls, crawledPages, failedUrls, assetUrls,
                   urlDepthMap, processedCount, pc, cur, log>>

CanCall == run.pc = "direct" /\ run.calls < MaxCalls

FM_InitializeSnapshot ==
    /\ run.pc = "direct"
    /\ fileManager.snapshotDir = <<>>
    /\ LET r == initializeSnapshot(fileManager, disk, clock)
       IN  /\ fileManager' = r.fm
           /\ disk' = r.disk
           /\ result' = Called([NoCall EXCEPT !.method = "initializeSnapshot"], r.result)
    /\ UNCHANGED <<run, clock, other, report, processor, processEnv, server,
                   config,
                   visitedUrls, queuedUrls, crawledPages, failedUrls, assetUrls,
                   urlDepthMap, processedCount, pc, cur, log>>

FM_SavePage ==
    /\ CanCall
    /\ \E url \in PageUrlArgs :
          Apply([NoCall EXCEPT !.method = "savePage", !.url = url],
                savePage(fileManager, disk, url, PageRoot))

FM_SaveAssetAtPath ==
    /\ CanCall
    /\ \E relPath \in RelPaths, fileBuffer \in Contents :
          Apply([NoCall EXCEPT !.method = "saveAssetAtPath", !.relPath = relPath,
                               !.bytes = fileBuffer],
                saveAssetAtPath(fileManager, disk, relPath, fileBuffer))

FM_SaveAsset ==
    /\ CanCall
    /\ \E assetUrl \in AssetUrlArgs, fileBuffer \in Contents, mimeType \in MimeTypes :
          Apply([NoCall EXCEPT !.method = "saveAsset", !.url = assetUrl,
                               !.bytes = fileBuffer, !.mimeType = mimeType],
                saveAsset(fileManager, disk, assetUrl, fileBuffer, mimeType))

FM_SaveMetadata ==
    /\ CanCall
    /\ Apply(MetadataCall,
             saveMetadata(fileManager, disk,
                          [crawledPages |-> 0, savedPages |-> 0,
                           downloadedAssets |-> 0, failedUrls |-> 0]))

FMNext ==
    \/ FM_InitializeSnapshot
    \/ FM_SavePage
    \/ FM_SaveAssetAtPath
    \/ FM_SaveAsset
    \/ FM_SaveMetadata

FMSpec == FMInit /\ [][FMNext]_vars


(***************************************************************************)
(* The requests.  httpClient is created without proxy, agent or lookup     *)
(* option, and get() is given the URL and the two headers: the connection  *)
(* goes to the host named in the URL.  An address is [kind, name, ip].     *)
(***************************************************************************)
HostnameAddress(name) == [kind |-> "hostname", name |-> name, ip |-> ""]
IpAddress(ip) == [kind |-> "ip", name |-> <<>>, ip |-> ip]

(* The request of fetchPage for url, and of runCrawl for an asset URL. *)
GetRequest(c, url) ==
    [url        |-> url,
     hostHeader |-> c.siteHost,
     connectTo  |-> HostnameAddress(url.host)]

(***************************************************************************)
(* FileManager.listSnapshots, runVerify and runClean.  The birth time of a *)
(* snapshot directory is the second its name tells: initializeSnapshot     *)
(* names the directory after the clock and creates it at once.             *)
(***************************************************************************)
(* /^\d{4}-\d{2}-\d{2}_\d{2}-\d{2}-\d{2}$/.test(entry) on the names used. *)
MatchesSnapshotPattern(entry) ==
    \E i \in DOMAIN TimestampNames : TimestampNames[i] = entry

(* The second a snapshot name tells. *)
SecondOf(entry) == (CHOOSE i \in DOMAIN TimestampNames : TimestampNames[i] = entry) - 1

(* fs.existsSync(p) *)
existsSync(d, p) == p \in d.dirs \/ p \in DOMAIN d.files

(* entries sorted by createdAt, newest first *)
RECURSIVE NewestFirst(_)
NewestFirst(entries) ==
    IF entries = {} THEN <<>>
    ELSE LET newest == CHOOSE e \in entries :
                           \A f \in entries : SecondOf(f) <= SecondOf(e)
         IN  <<newest>> \o NewestFirst(entries \ {newest})

(* FileManager.listSnapshots(outputDir): the names; [] when the directory  *)
(* does not exist or cannot be read.                                       *)
listSnapshots(d, outputDir) ==
    IF outputDir \notin d.dirs THEN <<>>
    ELSE NewestFirst({e \in readdirSync(d, outputDir) : MatchesSnapshotPattern(e)})

(* findHtmlFiles(dir): every file under dir whose name ends with .html. *)
findHtmlFiles(d, dir) ==
    {p \in DOMAIN d.files :
        IsPrefix(dir, p) /\ Len(p) > Len(dir) /\ ExtOf(p[Len(p)]) = "html"}

(* The text of a special reference. *)
RefText(ref) == IF ref.path = <<>> THEN "mailto:me@example.com" ELSE ref.path[1]

(* href.startsWith('http') *)
StartsWithHttp(ref) == ref.kind \in {"absolute", "malformed"}

(* href.startsWith('mailto:') || href.startsWith('tel:') *)
StartsWithMailtoOrTel(ref) == ref.kind = "special" /\ ref.path = <<>>

(* The skip test of the a[href] pass. *)
SkipsHref(ref) ==
    \/ ref.kind = "empty"
    \/ ref.kind = "fragment"
    \/ StartsWithHttp(ref)
    \/ StartsWithMailtoOrTel(ref)

(* The skip test of the [src] pass; no reference used starts with data:. *)
SkipsSrc(ref) == ref.kind = "empty" \/ StartsWithHttp(ref)

(* The skip test of the stylesheet pass. *)
SkipsStylesheetHref(ref) == ref.kind = "empty" \/ StartsWithHttp(ref)

(* resolveLocalPath(href, snapshotRoot, currentFile): <<>> stands for      *)
(* null.  Every reference that reaches it is a path or a special one.      *)
resolveLocalPath(ref, snapshotRoot, currentFile) ==
    CASE ref.kind = "fragment" -> <<>>
      [] ref.kind = "relative" -> NormalizeSegs(ref.path, snapshotRoot, TRUE)
      [] ref.kind = "document" -> NormalizeSegs(ref.path, DirOf(currentFile), TRUE)
      [] OTHER                 -> Append(DirOf(currentFile), RefText(ref))

(* The issue, if any, that one element of an HTML file gives rise to. *)
IssuesOfElement(d, snapshotRoot, htmlFile, k) ==
    LET e == d.files[htmlFile].html[k]
        targetPath == resolveLocalPath(e.ref, snapshotRoot, htmlFile)
        missing == targetPath # <<>> /\ ~existsSync(d, targetPath)
        relativeHtmlPath == SubSeq(htmlFile, Len(snapshotRoot) + 1, Len(htmlFile))
        issue(type) == [type |-> type, file |-> relativeHtmlPath, elem |-> k]
    IN  (IF e.tag = "a" /\ ~SkipsHref(e.ref) /\ missing
         THEN {issue("broken-link")} ELSE {})
        \cup
        (IF e.tag \in {"img", "script"} /\ ~SkipsSrc(e.ref) /\ missing
         THEN {issue("missing-asset")} ELSE {})
        \cup
        (IF e.tag = "link" /\ e.rel = "stylesheet" /\ ~SkipsStylesheetHref(e.ref)
            /\ missing
         THEN {issue("missing-stylesheet")} ELSE {})

(* issues.length === 0 ? 0 : 1 *)
VerifyExitCode(issues, warnings) == IF issues = {} THEN 0 ELSE 1

(* runVerify() on the disk d: the report. *)
runVerify(d, outputDir) ==
    LET snapshots == listSnapshots(d, outputDir)
    IN  IF Len(snapshots) = 0
        THEN [mode |-> "verify", code |-> 1, snapshot |-> <<>>, issues |-> {},
              warnings |-> {}, removed |-> {}]
        ELSE LET latestSnapshot == Append(outputDir, snapshots[1])
                 htmlFiles == findHtmlFiles(d, latestSnapshot)
                 linkIssues ==
                     UNION {UNION {IssuesOfElement(d, latestSnapshot, f, k) :
                                       k \in DOMAIN d.files[f].html} :
                            f \in htmlFiles}
                 warnings ==
                     IF existsSync(d, Append(latestSnapshot, ".metadata.json"))
                     THEN {} ELSE {"no-metadata"}
                 issues ==
                     linkIssues \cup
                     (IF existsSync(d, Append(latestSnapshot, "index.html")) THEN {}
                      ELSE {[type |-> "missing-index", file |-> <<>>, elem |-> 0]})
             IN  [mode |-> "verify", code |-> VerifyExitCode(issues, warnings),
                  snapshot |-> latestSnapshot, issues |-> issues,
                  warnings |-> warnings, removed |-> {}]

(* The text of a name up to and including its first dash. *)
UpToFirstDash(entry) ==
    CASE entry = ".tmp-download"               -> ".tmp-"
      [] entry = "temp-cache"                  -> "temp-"
      [] entry = "partial-2025-02-27_14-30-45" -> "partial-"
      [] entry = ".crawl-lock"                 -> ".crawl-"
      [] entry = "my-temp-files"               -> "my-"
      [] MatchesSnapshotPattern(entry)         -> "2025-"
      [] OTHER                                 -> ""

(* A pattern test that takes every name with a dash for a temporary one. *)
IsTemp_AnyDash(entry) == UpToFirstDash(entry) # ""

(* TEMP_PATTERNS.some((pattern) => pattern.test(entry)) *)
IsTemp(entry) == UpToFirstDash(entry) \in {".tmp-", "temp-", "partial-", ".crawl-"}

(* runClean() on the disk d: the new disk and the report. *)
runClean(d, outputDir) ==
    LET removed == IF outputDir \in d.dirs
                   THEN {e \in readdirSync(d, outputDir) : IsTemp(e)}
                   ELSE {}
        kept(p) == \A e \in removed : ~IsPrefix(Append(outputDir, e), p)
    IN  [disk   |-> [dirs  |-> {q \in d.dirs : kept(q)},
                     files |-> [q \in {r \in DOMAIN d.files : kept(r)} |-> d.files[q]]],
         report |-> [mode |-> "clean", code |-> 0, snapshot |-> <<>>, issues |-> {},
                     warnings |-> {}, removed |-> removed]]

(***************************************************************************)
(* The modes on an output directory: a FileManager writes a snapshot into  *)
(* a directory that may hold an older snapshot and other entries, and      *)
(* runVerify and runClean are run at any moment.                           *)
(***************************************************************************)
(* Saved pages.  SavedHome: <a href="/about">, <img src="/files/logo.png">, *)
(* <a href="#top">, <a href="mailto:...">, <a href="https://other.org/x">. *)
SavedHome ==
    <<Elem("a", Rel(<<"about">>)), Elem("img", Rel(<<"files", "logo.png">>)),
      Elem("a", FragmentRef), Elem("a", SpecialRef), Elem("a", Abs(OtherOrg, <<"x">>))>>

(* <a href="/">, <a href="/missing"> *)
SavedDangling == <<Elem("a", Rel(<<>>)), Elem("a", Rel(<<"missing">>))>>

(* <a href="/">, <a href="javascript:void(0)"> *)
SavedScripted == <<Elem("a", Rel(<<>>)), Elem("a", ScriptRef)>>

(* <link rel="stylesheet" href="/css/missing.css">, <img src="pic.png">,   *)
(* <form action="/missing">                                                *)
SavedStyled ==
    <<LinkElem(Rel(<<"css", "missing.css">>), "stylesheet"),
      Elem("img", Doc(<<"pic.png">>)), Elem("form", Rel(<<"missing">>))>>

(* <a href="/"> *)
SavedLeaf == <<Elem("a", Rel(<<>>))>>

SavedHtmls == {SavedHome, SavedDangling, SavedScripted, SavedStyled, SavedLeaf}

ModePageUrls == {Url(ExampleCom, "", <<>>), Url(ExampleCom, "", <<"about">>)}

OldSnapshot == Append(OutputDir, getTimestamp(0))

Touch(d, p) == WriteFile(d, p, AssetContent("bytesB"))

(* An output directory with temporary entries (a file, a directory with a  *)
(* file in it, a lock file), and entries that are neither temporary nor    *)
(* snapshots.                                                              *)
DiskWithTempEntries ==
    Touch(Touch(Touch(Touch(Touch(EmptyDisk,
        Append(OutputDir, ".tmp-download")),
        OutputDir \o <<"partial-2025-02-27_14-30-45", "index.html">>),
        Append(OutputDir, ".crawl-lock")),
        Append(OutputDir, "notes.txt")),
        OutputDir \o <<"my-temp-files", "index.html">>)

(* An output directory with the snapshot of an earlier run (a page with a  *)
(* dangling link, and metadata) and a temporary directory.                 *)
DiskWithOldSnapshot ==
    Touch(WriteFile(WriteFile(initializeSnapshot(NewFileManager, EmptyDisk, 0).disk,
        Append(OldSnapshot, "index.html"), PageContent(SavedDangling)),
        Append(OldSnapshot, ".metadata.json"),
            MetadataContent([pagesCount |-> 1, assetsCount |-> 0, crawledPages |-> 1,
                             savedPages |-> 1, downloadedAssets |-> 0,
                             failedUrls |-> 0])),
        OutputDir \o <<"temp-cache", "x">>)

InitialDisks ==
    {EmptyDisk, [EmptyDisk EXCEPT !.dirs = {OutputDir}], DiskWithTempEntries,
     DiskWithOldSnapshot}

(* A FileManager has been constructed one second after any older snapshot. *)
ModeInit ==
    /\ processEnv \in RunEnvs
    /\ server = "site"
    /\ config = CrawlerConfig(processEnv)
    /\ pc = "new"
    /\ fileManager = NewFileManager
    /\ disk \in InitialDisks
    /\ run = [NewRun EXCEPT !.pc = "direct"]
    /\ result = NoResult
    /\ visitedUrls = {}
    /\ queuedUrls = <<>>
    /\ crawledPages = <<>>
    /\ failedUrls = <<>>
    /\ assetUrls = <<>>
    /\ urlDepthMap = <<>>
    /\ processedCount = 0
    /\ cur = NoCur
    /\ log = <<>>
    /\ clock = 1
    /\ other = NewFileManager
    /\ report = NoReport
    /\ processor = NoProcessor

Mode_SavePage ==
    /\ CanCall
    /\ \E url \in ModePageUrls, html \in SavedHtmls :
          Apply([NoCall EXCEPT !.method = "savePage", !.url = url],
                savePage(fileManager, disk, url, html))

Mode_SaveAssetAtPath ==
    /\ CanCall
    /\ LET relPath == [slashes |-> 1, segs |-> <<"files", "logo.png">>]
       IN  Apply([NoCall EXCEPT !.method = "saveAssetAtPath", !.relPath = relPath,
                                !.bytes = "bytesA"],
                 saveAssetAtPath(fileManager, disk, relPath, "bytesA"))

(* runVerify(): reads the disk. *)
RunVerify ==
    /\ run.pc = "direct"
    /\ report' = runVerify(disk, OutputDir)
    /\ UNCHANGED <<fileManager, disk, run, result, clock, other, processor>>
    /\ UNCHANGED <<processEnv, server, config, visitedUrls, queuedUrls, crawledPages,
                   failedUrls, assetUrls, urlDepthMap, processedCount, pc, cur, log>>

(* runClean(): removes the temporary entries of the output directory. *)
RunClean ==
    /\ run.pc = "direct"
    /\ LET r == runClean(disk, OutputDir)
       IN  /\ disk' = r.disk
           /\ report' = r.report
    /\ UNCHANGED <<fileManager, run, result, clock, other, processor>>
    /\ UNCHANGED <<processEnv, server, config, visitedUrls, queuedUrls, crawledPages,
                   failedUrls, assetUrls, urlDepthMap, processedCount, pc, cur, log>>

ModeNext ==
    \/ FM_InitializeSnapshot
    \/ Mode_SavePage
    \/ Mode_SaveAssetAtPath
    \/ FM_SaveMetadata
    \/ RunVerify
    \/ RunClean

(* The FileManager and the two modes on one output directory. *)
ModeSpec == ModeInit /\ [][ModeNext]_vars

(***************************************************************************)
(* Two runs on one output directory: the FileManager of this run and the   *)
(* one of another run each initialise their snapshot at some second and    *)
(* save pages.                                                             *)
(***************************************************************************)
(* A second passes. *)
Tick ==
    /\ run.pc = "direct"
    /\ clock < MaxClock
    /\ clock' = clock + 1
    /\ UNCHANGED <<fileManager, disk, run, result, other, report, processor>>
    /\ UNCHANGED <<processEnv, server, config, visitedUrls, queuedUrls, crawledPages,
                   failedUrls, assetUrls, urlDepthMap, processedCount, pc, cur, log>>

Other_InitializeSnapshot ==
    /\ run.pc = "direct"
    /\ other.snapshotDir = <<>>
    /\ LET r == initializeSnapshot(other, disk, clock)
       IN  /\ other' = r.fm
           /\ disk' = r.disk
    /\ UNCHANGED <<fileManager, run, result, clock, report, processor>>
    /\ UNCHANGED <<processEnv, server, config, visitedUrls, queuedUrls, crawledPages,
                   failedUrls, assetUrls, urlDepthMap, processedCount, pc, cur, log>>

(* The other run saves a page; an error is caught by its page loop. *)
Other_SavePage ==
    /\ run.pc = "direct"
    /\ other.pageCount < MaxCalls
    /\ \E url \in ModePageUrls :
          LET r == savePage(other, disk, url, PageA)
          IN  /\ other' = r.fm
              /\ disk' = r.disk
    /\ UNCHANGED <<fileManager, run, result, clock, report, processor>>
    /\ UNCHANGED <<processEnv, server, config, visitedUrls, queuedUrls, crawledPages,
                   failedUrls, assetUrls, urlDepthMap, processedCount, pc, cur, log>>

TwoRunNext ==
    \/ Tick
    \/ FM_InitializeSnapshot
    \/ FM_SavePage
    \/ Other_InitializeSnapshot
    \/ Other_SavePage

TwoRunSpec == FMInit /\ [][TwoRunNext]_vars

(***************************************************************************)
(* PostProcessor.process on its own.  processor holds the site domain the  *)
(* PostProcessor was constructed with, the markup html passed to process,  *)
(* the document dom the steps work on and the position at in process.      *)
(***************************************************************************)
(* <li><a href="https://example.com/admin/x">Dashboard</a></li> *)
AdminItem ==
    Node("li", <<[Elem("a", Abs(ExampleCom, <<"admin", "x">>))
                      EXCEPT !.text = "Dashboard"]>>)

(* <a href="https://www.example.com/user/login">Log in</a> *)
LoginLink ==
    [Elem("a", Abs(WwwExampleCom, <<"user", "login">>)) EXCEPT !.text = "Log in"]

(* <li><a href="https://example.com/admin/x">Manage experiments</a></li> *)
ExperimentAdminItem ==
    Node("li", <<[Elem("a", Abs(ExampleCom, <<"admin", "x">>))
                      EXCEPT !.text = "Manage experiments"]>>)

(* <a href="/node/1" rel="admin">Edit</a> *)
EditLink ==
    [Elem("a", Rel(<<"node", "1">>)) EXCEPT !.text = "Edit", !.rel = "admin"]

(* <a href="/about">About</a> *)
AboutLink == [Elem("a", Rel(<<"about">>)) EXCEPT !.text = "About"]

(* <iframe src="/JATOS/run"> and <iframe class="jatos-frame" src="/run"> *)
UpperFrame == Elem("iframe", Rel(<<"JATOS", "run">>))
LowerFrame == [Elem("iframe", Rel(<<"run">>)) EXCEPT !.cls = "jatos-frame"]

(* <form action="/SignUp"> and <form class="JATOS-frame" action="/c"> *)
SignUpForm == Elem("form", Rel(<<"SignUp">>))
UpperForm == [Elem("form", Rel(<<"c">>)) EXCEPT !.cls = "JATOS-frame"]

(* <a href="/JATOS/start">About</a>, <a href="/study">Join the JATOS study</a> *)
UpperHrefLink == [Elem("a", Rel(<<"JATOS", "start">>)) EXCEPT !.text = "About"]
UpperTextLink ==
    [Elem("a", Rel(<<"study">>)) EXCEPT !.text = "Join the JATOS study"]

(* <div><!-- --></div>, <div><div></div></div>, <div><p></p></div>,          *)
(* <p align="center" onclick="...">About</p>                               *)
CommentOnlyDiv == Node("div", <<Comment>>)
NestedEmptyDiv == Node("div", <<Node("div", <<>>)>>)
EmptyParagraphDiv == Node("div", <<Node("p", <<>>)>>)
AlignedParagraph ==
    [Node("p", <<>>) EXCEPT !.text = "About", !.attrs = {"align", "onclick"}]

(* <script src="https://other.org/m.js">, <div id="admin-bar">About</div>,  *)
(* <aside role="complementary"><nav>About</nav></aside>                   *)
ExternalScript == Elem("script", Abs(OtherOrg, <<"m.js">>))
AdminBar == [Node("div", <<>>) EXCEPT !.id = "admin-bar", !.text = "About"]
SideNav ==
    [Node("aside", <<[Node("nav", <<>>) EXCEPT !.text = "About"]>>)
        EXCEPT !.attrs = {"role=complementary"}]

SampleNodes ==
    {AdminItem, LoginLink, ExperimentAdminItem, EditLink, AboutLink, UpperFrame,
     LowerFrame, SignUpForm, UpperForm, UpperHrefLink, UpperTextLink, Comment,
     CommentOnlyDiv, NestedEmptyDiv, EmptyParagraphDiv, AlignedParagraph,
     ExternalScript, AdminBar, SideNav}

(* The markup passed to process: up to MaxNodes of the nodes above. *)
Documents == UNION {[1..n -> SampleNodes] : n \in 0..MaxNodes}

(* The values of SITE_HOST the PostProcessor is constructed with. *)
SiteDomains ==
    {[name |-> ExampleCom, port |-> ""], [name |-> WwwExampleCom, port |-> "8080"]}

ProcessInit ==
    /\ processEnv \in RunEnvs
    /\ server = "site"
    /\ config = CrawlerConfig(processEnv)
    /\ pc = "new"
    /\ fileManager = NewFileManager
    /\ disk = EmptyDisk
    /\ run = [NewRun EXCEPT !.pc = "direct"]
    /\ result = NoResult
    /\ visitedUrls = {}
    /\ queuedUrls = <<>>
    /\ crawledPages = <<>>
    /\ failedUrls = <<>>
    /\ assetUrls = <<>>
    /\ urlDepthMap = <<>>
    /\ processedCount = 0
    /\ cur = NoCur
    /\ log = <<>>
    /\ clock = 0
    /\ other = NewFileManager
    /\ report = NoReport
    /\ processor \in [siteDomain : SiteDomains, html : Documents, dom : {<<>>},
                      at : {"called"}]

ProcessorStep(from, to, dom) ==
    /\ run.pc = "direct"
    /\ processor.at = from
    /\ processor' = [processor EXCEPT !.at = to, !.dom = dom]
    /\ UNCHANGED <<fileManager, disk, run, result, clock, other, report>>
    /\ UNCHANGED <<processEnv, server, config, visitedUrls, queuedUrls, crawledPages,
                   failedUrls, assetUrls, urlDepthMap, processedCount, pc, cur, log>>

(* if (!html || typeof html !== 'string') return html *)
Process_InvalidInput ==
    /\ ~Truthy(processor.html)
    /\ ProcessorStep("called", "returned", processor.html)

Process_Sanitize ==
    /\ Truthy(processor.html)
    /\ ProcessorStep("called", "sanitized", sanitizeHtml(processor.html))

Process_RewriteUrls ==
    ProcessorStep("sanitized", "rewritten",
                  rewriteUrls(processor.dom, processor.siteDomain))

Process_ReplaceJatosForms ==
    ProcessorStep("rewritten", "replaced", replaceJatosForms(processor.dom))

Process_RemoveAdminElements ==
    ProcessorStep("replaced", "cleared", removeAdminElements(processor.dom))

Process_CleanupHtml ==
    ProcessorStep("cleared", "returned", cleanupHtml(processor.dom))

ProcessNext ==
    \/ Process_InvalidInput
    \/ Process_Sanitize
    \/ Process_RewriteUrls
    \/ Process_ReplaceJatosForms
    \/ Process_RemoveAdminElements
    \/ Process_CleanupHtml

ProcessSpec == ProcessInit /\ [][ProcessNext]_vars

(***************************************************************************)
(* Properties.                                                             *)
(***************************************************************************)

(* The same-domain test as the documentation states it: hostnames compared *)
(* with a leading www. removed, the site's taken from SITE_HOST without    *)
(* its port.                                                               *)
SameDomainAsDocumented(url) ==
    url.valid /\ StripWww(url.host) = StripWww(config.siteHost.name)

FailedIndexesOf(u) == {i \in DOMAIN failedUrls : failedUrls[i].url = u}

(* Page i of crawledPages links to page j. *)
LinksTo(i, j) ==
    Has(extractUrls(config, crawledPages[i].html, crawledPages[i].url).urls,
        crawledPages[j].url)

(* C1: every URL is added to the visited set at most once and at most      *)
(* 1 + maxRetries GETs are issued for it.                                  *)
VisitOnceWithinRetryBudget ==
    \A u \in DOMAIN log :
        /\ log[u].adds <= 1
        /\ log[u].gets <= 1 + config.maxRetries

(* A URL has used its whole retry budget in a crawl of several URLs. *)
RetryBudgetUsed ==
    /\ config.maxRetries > 0
    /\ Cardinality(visitedUrls) > 1
    /\ \E u \in DOMAIN log : log[u].adds = 1 /\ log[u].gets = 1 + config.maxRetries

(* C2: crawl() terminates, with the pending queue empty or the page cap    *)
(* reached, on every site, link cycles included.                           *)
CrawlTerminates ==
    (pc = "new") ~>
        (pc = "done" /\ (Len(queuedUrls) = 0 \/ processedCount >= config.maxPages))

(* The crawl of a site in which two pages link to each other has ended. *)
CycleCrawledToEnd ==
    /\ pc = "done"
    /\ \E i, j \in DOMAIN crawledPages : i # j /\ LinksTo(i, j) /\ LinksTo(j, i)

(* C3: no URL is pending and visited at the same time. *)
PendingVisitedDisjoint ==
    \A i \in DOMAIN queuedUrls : queuedUrls[i] \notin visitedUrls

(* URLs are pending while a crawled page links back to a visited URL. *)
BackLinkWhilePending ==
    /\ Len(queuedUrls) > 0
    /\ \E i \in DOMAIN crawledPages :
          \E v \in visitedUrls :
              Has(extractUrls(config, crawledPages[i].html, crawledPages[i].url).urls, v)

(* C4: with maxDepth = D > 0 no URL recorded deeper than D is fetched; it   *)
(* leaves the pending queue unfetched and unvisited.  With maxDepth = 0    *)
(* nothing is discarded for depth.                                         *)
DepthBoundRespected ==
    /\ [](config.maxDepth > 0 =>
            /\ pc = "fetch" => cur.depth <= config.maxDepth
            /\ \A i \in DOMAIN crawledPages : crawledPages[i].depth <= config.maxDepth)
    /\ [](config.maxDepth = 0 => \A u \in DOMAIN log : log[u].discards = 0)
    /\ [][(/\ pc = "loop"
           /\ Len(queuedUrls) > 0
           /\ processedCount < config.maxPages
           /\ config.maxDepth > 0
           /\ getDepthForUrl(urlDepthMap, Head(queuedUrls)) > config.maxDepth)
          => (/\ ~Has(queuedUrls', Head(queuedUrls))
              /\ visitedUrls' = visitedUrls
              /\ pc' = "loop"
              /\ \A u \in DOMAIN log : log'[u].gets = log[u].gets
              /\ \A u \in DOMAIN log' : u \notin DOMAIN log => log'[u].gets = 0)]_vars

(* With maxDepth = 1 a URL found two hops from the root was discarded. *)
TwoHopUrlDiscarded ==
    /\ config.maxDepth = 1
    /\ pc = "done"
    /\ \E u \in DOMAIN log :
          /\ log[u].discards > 0
          /\ log[u].gets = 0
          /\ u \notin visitedUrls
          /\ urlDepthMap[u] = 2

(* C5: the loop stops exactly when the pending queue is empty or the       *)
(* processed count has reached maxPages; neither the visited set nor the   *)
(* crawled pages exceed maxPages.                                          *)
PageCapRespected ==
    /\ [](pc = "done" => (Len(queuedUrls) = 0 \/ processedCount >= config.maxPages))
    /\ [][(pc = "loop" /\ (Len(queuedUrls) = 0 \/ processedCount >= config.maxPages))
          => pc' = "done"]_vars
    /\ [][(pc = "loop" /\ pc' = "done")
          => (Len(queuedUrls) = 0 \/ processedCount >= config.maxPages)]_vars
    /\ [](/\ processedCount = Cardinality(visitedUrls)
          /\ Cardinality(visitedUrls) <= config.maxPages
          /\ Len(crawledPages) <= config.maxPages)

(* The crawl stopped at the page cap with URLs still pending. *)
StoppedAtPageCap ==
    /\ pc = "done"
    /\ config.maxPages > 1
    /\ processedCount = config.maxPages
    /\ Len(queuedUrls) > 0

(* C6: a 200 response is a page only if its content type is absent,        *)
(* text/html or application/xhtml+xml and it is no attachment; every other *)
(* 200 response is a binary asset: its URL joins the asset URLs, nothing   *)
(* is appended to the crawled pages and nothing is enqueued.               *)
ClassifiedByHeaders ==
    [][\A response \in Responses :
          (/\ pc = "fetch"
           /\ response.status = "200"
           /\ HandlePage(ClassifyResponse(response))
           /\ pc' = "loop")
          => LET contentType == ContentTypeOf(response.contentType)
                 htmlByHeaders ==
                     /\ contentType \in {"", "text/html", "application/xhtml+xml"}
                     /\ ~IsAttachment(response.contentDisposition)
             IN  IF htmlByHeaders
                 THEN TRUE
                 ELSE /\ Has(assetUrls', cur.url)
                      /\ crawledPages' = crawledPages
                      /\ queuedUrls' = queuedUrls]_vars

TransportFailureRecordedOnce ==
    /\ \A i \in DOMAIN failedUrls :
          failedUrls[i].status = "0" =>
              /\ LogOf(failedUrls[i].url).throws = 1 + config.maxRetries
              /\ LogOf(failedUrls[i].url).gets = 1 + config.maxRetries
    /\ \A u \in DOMAIN log :
          /\ Cardinality(FailedIndexesOf(u)) <= 1
          /\ log[u].throws = 1 + config.maxRetries =>
                /\ \E i \in FailedIndexesOf(u) : failedUrls[i].status = "0"
                /\ ~(pc = "fetch" /\ cur.url = u)
    /\ pc = "fetch" => LogOf(cur.url).throws = cur.attempt

(* After a URL exhausted its retries the crawl is fetching another URL. *)
CrawlGoesOnAfterFailure ==
    /\ config.maxRetries > 0
    /\ pc = "fetch"
    /\ \E i \in DOMAIN failedUrls :
          failedUrls[i].status = "0" /\ failedUrls[i].url # cur.url

SampleUrls ==
    {NoUrl} \cup
    {Url(h, prt, p) : h \in {ExampleCom, WwwExampleCom, OtherOrg},
                      prt \in {"", "8080"}, p \in {<<>>, <<"about">>}}

(* C9: for a configuration built by CrawlerConfig, isSameDomain(url) is    *)
(* true exactly when the URL parses and its hostname, without a leading    *)
(* www., equals SITE_HOST without its port and without a leading www.      *)
IsSameDomainAsDocumented ==
    (pc # "rejected" /\ \E env \in Envs : config = CrawlerConfig(env)) =>
        \A u \in SampleUrls :
            isSameDomain(config, u) = SameDomainAsDocumented(u)

(* C10: once a page at depth d has been processed, each of its same-domain *)
(* anchor and form links that was neither visited nor pending is pending   *)
(* at depth d + 1, and each of its same-domain image, script and           *)
(* stylesheet references is among the asset URLs.                          *)
LinksEnqueuedAtNextDepth ==
    [][(pc = "fetch" /\ Len(crawledPages') = Len(crawledPages) + 1)
       => LET page == crawledPages'[Len(crawledPages')]
          IN  \A k \in DOMAIN page.html :
                  LET e == page.html[k]
                      target == resolveUrl(e.ref, page.url)
                  IN  /\ (/\ e.tag \in {"a", "form"}
                          /\ SameDomainAsDocumented(target)
                          /\ target \notin visitedUrls
                          /\ ~Has(queuedUrls, target))
                         => (/\ Has(queuedUrls', target)
                             /\ getDepthForUrl(urlDepthMap', target) = page.depth + 1)
                      /\ (/\ \/ e.tag \in {"img", "script"}
                             \/ e.tag = "link" /\ e.rel = "stylesheet"
                          /\ SameDomainAsDocumented(target))
                         => Has(assetUrls', target)]_vars

(***************************************************************************)
(* Properties of the saved snapshot.                                       *)
(***************************************************************************)

(* The path, relative to the snapshot root, at which runCrawl saves the    *)
(* asset downloaded from assetUrl.                                         *)
AssetSavePath(assetUrl) ==
    path_normalize(StripLeadingSlash(AssetRelPath(assetUrl))).segs

(* The path, relative to the snapshot root, that a reference of the page   *)
(* saved for pageUrl resolves to from the page's own location: a path that *)
(* starts with a slash from the root, any other path from the page's       *)
(* directory; an absolute URL resolves to no path of the snapshot.         *)
ResolvesTo(ref, pageUrl, target) ==
    CASE ref.kind = "relative" -> target = ref.path
      [] ref.kind = "document" -> target = DirOf(getPageFilePath(pageUrl)) \o ref.path
      [] OTHER                 -> FALSE

(* The elements that refer to an asset and are kept by process. *)
IsAssetElement(e) == e.tag = "img" \/ (e.tag = "link" /\ e.rel = "stylesheet")

(* C11: for every same-domain asset referenced from a crawled page, the    *)
(* path under which runCrawl saves the asset is the path the rewritten     *)
(* reference resolves to from the saved page's location.                   *)
SavedWhereReferenced ==
    \A i \in DOMAIN crawledPages :
        \A k \in DOMAIN crawledPages[i].html :
            LET page == crawledPages[i]
                e == page.html[k]
                assetUrl == resolveUrl(e.ref, page.url)
            IN  (IsAssetElement(e) /\ SameDomainAsDocumented(assetUrl))
                => ResolvesTo(RewriteRef(e.ref, config.siteHost), page.url,
                              AssetSavePath(assetUrl))

(* The step is a call of one of the FileManager's methods named in ms, on  *)
(* an instance whose snapshot is initialised.                              *)
CallsOneOf(ms) ==
    /\ fileManager.snapshotDir # <<>>
    /\ run'.calls = run.calls + 1
    /\ result'.call.method \in ms

(* The logical path, resolved against the snapshot root, lies strictly     *)
(* inside the root.                                                        *)
InsideRoot(relPath) ==
    LET full == path_resolve(fileManager.snapshotDir,
                             path_normalize(StripLeadingSlash(relPath)))
    IN  IsPrefix(fileManager.snapshotDir, full) /\ full # fileManager.snapshotDir

AssetFiles == {p \in DOMAIN disk.files : disk.files[p].kind = "asset"}

(* C12: within one snapshot, a call of saveAssetAtPath (with a path inside *)
(* the root) or of saveAsset whose content was saved before, through       *)
(* either method, writes nothing, returns the record the first call        *)
(* created and leaves the asset counter and the hash map unchanged.        *)
SecondSaveWritesNothing ==
    [][(/\ CallsOneOf({"saveAssetAtPath", "saveAsset"})
        /\ result'.call.bytes \in DOMAIN run.firstRecord
        /\ (result'.call.method = "saveAssetAtPath" => InsideRoot(result'.call.relPath)))
       => (/\ disk' = disk
           /\ result'.outcome = "returned"
           /\ result'.value = run.firstRecord[result'.call.bytes]
           /\ fileManager'.assetCount = fileManager.assetCount
           /\ fileManager'.assetMap = fileManager.assetMap)]_vars

(* The same content went through saveAssetAtPath and then through          *)
(* saveAsset: one file, one record, the second call returned the first's.  *)
SavedTwiceStoredOnce ==
    /\ result.call.method = "saveAsset"
    /\ result.outcome = "returned"
    /\ result.value.shape = "atPath"
    /\ result.value = run.firstRecord[result.call.bytes]
    /\ Cardinality(AssetFiles) = 1
    /\ fileManager.assetCount = 1

(* C12 as stated, for every logical path: a call of saveAssetAtPath or     *)
(* saveAsset whose content was saved before writes nothing and returns the *)
(* record the first call created.                                          *)
SecondSaveReturnsFirstRecord ==
    [][(/\ CallsOneOf({"saveAssetAtPath", "saveAsset"})
        /\ result'.call.bytes \in DOMAIN run.firstRecord)
       => (/\ disk' = disk
           /\ result'.outcome = "returned"
           /\ result'.value = run.firstRecord[result'.call.bytes]
           /\ fileManager'.assetCount = fileManager.assetCount
           /\ fileManager'.assetMap = fileManager.assetMap)]_vars

(* The file saved for crawled page i, if savePage wrote it. *)
PageFileOf(i) == fileManager.snapshotDir \o getPageFilePath(crawledPages[i].url)

PageIsSaved(i) ==
    /\ PageFileOf(i) \in DOMAIN disk.files
    /\ disk.files[PageFileOf(i)] =
           PageContent(process(crawledPages[i].html, config.siteHost))

UnsafePathSkipped ==
    [][(/\ CallsOneOf({"saveAssetAtPath"})
        /\ ~InsideRoot(result'.call.relPath))
       => (/\ result'.outcome = "null"
           /\ disk' = disk
           /\ fileManager' = fileManager)]_vars

(* saveAssetAtPath was called with the root itself as path and content     *)
(* that is already stored, and returned null.                              *)
RootPathSkippedForKnownContent ==
    /\ result.call.method = "saveAssetAtPath"
    /\ result.call.relPath.segs = <<>>
    /\ ~InsideRoot(result.call.relPath)
    /\ result.call.bytes \in DOMAIN run.firstRecord
    /\ result.outcome = "null"

InSnapshot(relPath) == fileManager.snapshotDir \o relPath

(* Every request of the run was answered, every asset with status 200, and *)
(* no write failed.                                                        *)
NothingFailed ==
    /\ failedUrls = <<>>
    /\ run.pageErrors = 0
    /\ run.assetErrors = 0
    /\ \A i \in DOMAIN assetUrls : assetUrls[i] \in run.downloaded

(* The root URL was answered with the example site's root page. *)
RootIsExamplePage ==
    /\ crawledPages # <<>>
    /\ crawledPages[1].url = StartingUrl(config)
    /\ crawledPages[1].html = PageRoot

(* C16: against the site whose root page links to /about and shows         *)
(* /sites/default/files/logo.png, with maxDepth 0 and maxPages 10, the     *)
(* finished run leaves index.html referencing /files/logo.png, the file    *)
(* files/logo.png, about/index.html and a metadata record with             *)
(* pagesCount 2.                                                           *)
ExampleSnapshotProduced ==
    (/\ run.pc = "returned" /\ run.exitCode = 0
     /\ config.maxDepth = 0 /\ config.maxPages = 10
     /\ RootIsExamplePage
     /\ NothingFailed)
    => /\ InSnapshot(<<"index.html">>) \in DOMAIN disk.files
       /\ \E k \in DOMAIN disk.files[InSnapshot(<<"index.html">>)].html :
             disk.files[InSnapshot(<<"index.html">>)].html[k] =
                 Elem("img", Rel(<<"files", "logo.png">>))
       /\ InSnapshot(<<"files", "logo.png">>) \in DOMAIN disk.files
       /\ disk.files[InSnapshot(<<"files", "logo.png">>)].kind = "asset"
       /\ InSnapshot(<<"about", "index.html">>) \in DOMAIN disk.files
       /\ InSnapshot(<<".metadata.json">>) \in DOMAIN disk.files
       /\ disk.files[InSnapshot(<<".metadata.json">>)].meta[1].pagesCount = 2

(* The environment sets SITE_HOST or SITE_IP to the empty string, or       *)
(* CRAWL_DELAY or MAX_RETRIES to a negative number.                        *)
InvalidSetting ==
    \/ processEnv.SITE_HOST = <<EmptyHost>>
    \/ processEnv.SITE_IP = <<"">>
    \/ (processEnv.CRAWL_DELAY # <<>> /\ processEnv.CRAWL_DELAY[1] < 0)
    \/ (processEnv.MAX_RETRIES # <<>> /\ processEnv.MAX_RETRIES[1] < 0)

NoRequestIssued == \A u \in DOMAIN log : log[u].gets = 0

(* C17: a configuration with an empty site hostname, an empty origin IP, a *)
(* negative crawl delay or a negative retry count is rejected with an      *)
(* error when it is constructed, before any HTTP request is issued.        *)
InvalidConfigRejected ==
    InvalidSetting => (pc = "rejected" /\ run.pc = "threw" /\ NoRequestIssued)

MetadataFile == InSnapshot(<<".metadata.json">>)

(* C18: when an exception escapes the crawl or save pipeline inside        *)
(* runCrawl the run is aborted: no metadata record is written from then    *)
(* on, cleanupFailedSnapshot() is invoked and runCrawl returns 1; and 1 is *)
(* returned in no other case.                                              *)
EscapedExceptionAborts ==
    /\ run.escaped => (/\ run.pc = "returned"
                       /\ run.exitCode = 1
                       /\ run.cleanups = 1
                       /\ MetadataFile \notin DOMAIN disk.files)
    /\ run.exitCode = 1 => run.escaped
    /\ run.cleanups > 0 => run.escaped

(* saveMetadata threw after a page had been saved. *)
AbortedAfterSaving ==
    /\ run.escaped
    /\ run.savedCount > 0
    /\ fileManager.pageCount > 0
    /\ result.call.method = "saveMetadata"
    /\ result.outcome = "threw"

(* C19: when a run aborts after initializeSnapshot() without having saved  *)
(* any page, asset or metadata, cleanupFailedSnapshot() deletes the        *)
(* snapshot directory.                                                     *)
EmptySnapshotDeleted ==
    (/\ run.escaped
     /\ run.cleanups > 0
     /\ fileManager.pageCount = 0
     /\ fileManager.assetCount = 0
     /\ MetadataFile \notin DOMAIN disk.files)
    => fileManager.snapshotDir \notin disk.dirs

(* C20: a failure while processing or saving one page, or while            *)
(* downloading or saving one asset, is confined to that item: the run goes *)
(* on with the next item, and unless saveMetadata itself throws it has     *)
(* handled every page and asset, written the metadata record and returned  *)
(* 0 when it ends.                                                         *)
ItemFailureConfined ==
    /\ [][(run'.pageErrors > run.pageErrors \/ run'.assetErrors > run.assetErrors)
          => (/\ run'.pc = "try"
              /\ run'.pageIndex + run'.assetIndex = run.pageIndex + run.assetIndex + 1
              /\ disk' = disk
              /\ fileManager' = fileManager)]_vars
    /\ []((run.pc = "returned" /\ ~run.escaped)
          => (/\ run.exitCode = 0
              /\ run.pageIndex = Len(crawledPages)
              /\ run.assetIndex = Len(assetUrls)
              /\ run.savedCount + run.pageErrors = Len(crawledPages)
              /\ MetadataFile \in DOMAIN disk.files
              /\ disk.files[MetadataFile].meta[1].savedPages = run.savedCount))

(* The run returned 0 with the metadata written although one page and one  *)
(* asset had failed; another page and another asset were saved.            *)
ReturnedZeroDespiteFailures ==
    /\ run.pc = "returned"
    /\ run.exitCode = 0
    /\ run.pageErrors > 0
    /\ run.assetErrors > 0
    /\ run.savedCount > 0
    /\ fileManager.assetCount > 0
    /\ MetadataFile \in DOMAIN disk.files

(***************************************************************************)
(* Properties of the requests, of the other modes and of the run's order.  *)
(***************************************************************************)

(* C21: every GET of the crawl carries a Host header equal to the          *)
(* configured site host and is sent to the configured origin address       *)
(* SITE_IP, not to the hostname.                                           *)
RequestsGoToOriginIp ==
    pc = "fetch" =>
        LET request == GetRequest(config, cur.url)
        IN  /\ request.hostHeader = config.siteHost
            /\ request.connectTo = IpAddress(config.siteIp)

(* The snapshots of the output directory, and the newest of them. *)
SnapshotDirs ==
    {p \in disk.dirs \cup DOMAIN disk.files :
        Len(p) = Len(OutputDir) + 1 /\ IsPrefix(OutputDir, p)
        /\ MatchesSnapshotPattern(p[Len(p)])}

LatestSnapshotDir ==
    CHOOSE p \in SnapshotDirs :
        \A q \in SnapshotDirs : SecondOf(q[Len(q)]) <= SecondOf(p[Len(p)])

(* Element k of the file f of the newest snapshot refers to a local path   *)
(* (from the snapshot root when it starts with a slash, else from the      *)
(* file's directory) at which nothing exists.                              *)
RefersToMissingPath(f, k) ==
    LET ref == disk.files[f].html[k].ref
        target == IF ref.kind = "relative" THEN LatestSnapshotDir \o ref.path
                  ELSE DirOf(f) \o ref.path
    IN  /\ ref.kind \in {"relative", "document"}
        /\ target \notin disk.dirs
        /\ target \notin DOMAIN disk.files

(* The defects of the newest snapshot: dangling anchors, missing assets    *)
(* and missing stylesheets, as pairs of file and element.                  *)
DefectsOfKind(tags, rels) ==
    {fk \in UNION {{<<f, k>> : k \in DOMAIN disk.files[f].html} :
                      f \in {g \in DOMAIN disk.files :
                                /\ IsPrefix(LatestSnapshotDir, g)
                                /\ ExtOf(g[Len(g)]) = "html"}} :
        /\ disk.files[fk[1]].html[fk[2]].tag \in tags
        /\ disk.files[fk[1]].html[fk[2]].rel \in rels
        /\ RefersToMissingPath(fk[1], fk[2])}

DanglingAnchors == DefectsOfKind({"a"}, {""})
MissingAssets == DefectsOfKind({"img", "script"}, {""})
MissingStylesheets == DefectsOfKind({"link"}, {"stylesheet"})

HasIndexHtml ==
    \/ Append(LatestSnapshotDir, "index.html") \in DOMAIN disk.files
    \/ Append(LatestSnapshotDir, "index.html") \in disk.dirs

(* C22: runVerify returns 0 exactly when the newest snapshot has no        *)
(* dangling anchor, no missing asset, no missing stylesheet and an         *)
(* index.html, and 1 otherwise, also when there is no snapshot; warnings   *)
(* do not count; a snapshot whose only defect is one dangling anchor gives *)
(* exactly one issue, a broken link.                                       *)
VerifyReportsDefects ==
    [][(report' # report /\ report'.mode = "verify")
       => IF SnapshotDirs = {}
          THEN report'.code = 1
          ELSE /\ report'.code \in {0, 1}
               /\ report'.code = 0 <=>
                     (/\ DanglingAnchors = {}
                      /\ MissingAssets = {}
                      /\ MissingStylesheets = {}
                      /\ HasIndexHtml)
               /\ (/\ Cardinality(DanglingAnchors) = 1
                   /\ MissingAssets = {}
                   /\ MissingStylesheets = {}
                   /\ HasIndexHtml)
                  => (/\ Cardinality(report'.issues) = 1
                      /\ \A i \in report'.issues : i.type = "broken-link"
                      /\ report'.code = 1)]_vars

(* The entry of the output directory that the path p lies in or is. *)
EntryOf(p) == p[Len(OutputDir) + 1]

InOutputDir(p) == IsPrefix(OutputDir, p) /\ Len(p) > Len(OutputDir)

AllPaths(d) == d.dirs \cup DOMAIN d.files

(* The names that start with .tmp-, temp-, partial- or .crawl-. *)
TempNamed ==
    {".tmp-download", "temp-cache", "partial-2025-02-27_14-30-45", ".crawl-lock"}

(* The step is a run of runClean. *)
CleanStep == report'.mode = "clean" /\ fileManager' = fileManager /\ run' = run

(* C23: runClean leaves every entry of the output directory that is named  *)
(* like a snapshot, and all it contains, as it was; it removes nothing but *)
(* entries whose name starts with a temp prefix, adds nothing and          *)
(* returns 0.                                                              *)
CleanKeepsSnapshots ==
    [][CleanStep
       => (/\ report'.code = 0
           /\ \A p \in AllPaths(disk) :
                 (InOutputDir(p) /\ MatchesSnapshotPattern(EntryOf(p)))
                 => (/\ p \in disk.dirs <=> p \in disk'.dirs
                     /\ p \in DOMAIN disk.files
                        => (p \in DOMAIN disk'.files /\ disk'.files[p] = disk.files[p]))
           /\ \A p \in AllPaths(disk) \ AllPaths(disk') :
                 InOutputDir(p) /\ EntryOf(p) \in TempNamed
           /\ AllPaths(disk') \subseteq AllPaths(disk)
           /\ \A p \in DOMAIN disk'.files : disk'.files[p] = disk.files[p])]_vars

(* runClean removed a temporary entry from an output directory that holds  *)
(* an older snapshot and one to which a page was just saved; both are      *)
(* still there.                                                            *)
CleanedBesideSnapshots ==
    /\ report.mode = "clean"
    /\ report.removed # {}
    /\ Cardinality(SnapshotDirs) = 2
    /\ fileManager.pageCount > 0
    /\ Append(OldSnapshot, "index.html") \in DOMAIN disk.files
    /\ Append(fileManager.snapshotDir, "index.html") \in DOMAIN disk.files
    /\ \A p \in AllPaths(disk) : InOutputDir(p) => EntryOf(p) \notin TempNamed

(* C24 as stated: two runs on the same output directory never have the     *)
(* same snapshot directory.                                                *)
SnapshotRootsUnique ==
    (fileManager.snapshotDir # <<>> /\ other.snapshotDir # <<>>)
    => fileManager.snapshotDir # other.snapshotDir

(* C24 as amended: initializeSnapshot() gives the snapshot root the name   *)
(* of the second at which it runs, and different seconds have different    *)
(* names: two runs obtain different roots when they initialise at          *)
(* different seconds, and the same root when they initialise within one    *)
(* second.                                                                 *)
SnapshotRootNamedBySecond ==
    /\ [][(fileManager.snapshotDir = <<>> /\ fileManager'.snapshotDir # <<>>)
          => fileManager'.snapshotDir = Append(OutputDir, TimestampNames[clock + 1])]_vars
    /\ [][(other.snapshotDir = <<>> /\ other'.snapshotDir # <<>>)
          => other'.snapshotDir = Append(OutputDir, TimestampNames[clock + 1])]_vars
    /\ [](\A s, t \in 0..MaxClock :
             s # t => TimestampNames[s + 1] # TimestampNames[t + 1])

(* Both runs initialised within the same second, after the clock had       *)
(* moved on, and wrote to the one directory: the index.html this run saved *)
(* now holds the other run's page.                                         *)
OverwrittenByOtherRun ==
    /\ clock > 0
    /\ fileManager.snapshotDir # <<>>
    /\ fileManager.snapshotDir = other.snapshotDir
    /\ fileManager.snapshotDir = Append(OutputDir, TimestampNames[clock + 1])
    /\ result.call.method = "savePage"
    /\ result.outcome = "returned"
    /\ result.value.relPath = <<"index.html">>
    /\ disk.files[Append(fileManager.snapshotDir, "index.html")] = PageContent(PageA)

(* The step is a call of saveMetadata by runCrawl. *)
MetadataStep ==
    run.pc = "try" /\ result'.call.method = "saveMetadata" /\ run'.pc # "try"

(* C25: in a run of the pipeline the metadata record is written at most    *)
(* once, only after crawl() has returned, every crawled page has been      *)
(* processed and every asset URL handled, and only on the path that        *)
(* returns 0; no asset download starts before the last page was handled.   *)
MetadataWrittenOnceAtEnd ==
    /\ [][MetadataStep
          => (/\ pc = "done"
              /\ run.pageIndex = Len(crawledPages)
              /\ run.assetIndex = Len(assetUrls)
              /\ run.savedCount + run.pageErrors = Len(crawledPages)
              /\ MetadataFile \notin DOMAIN disk.files
              /\ (MetadataFile \in DOMAIN disk'.files) <=> (run'.exitCode = 0))]_vars
    /\ [][(MetadataFile \in DOMAIN disk.files) => (disk' = disk)]_vars
    /\ [][(MetadataFile \in DOMAIN disk'.files)
          => (MetadataFile \in DOMAIN disk.files
              \/ MetadataStep)]_vars
    /\ [](MetadataFile \in DOMAIN disk.files
            => (run.pc = "returned" /\ run.exitCode = 0))
    /\ [][run'.assetIndex > run.assetIndex
          => (pc = "done" /\ run.pageIndex = Len(crawledPages))]_vars

(* The metadata was written after two pages had been saved and the assets  *)
(* handled, one of them downloaded and stored.                             *)
MetadataAfterPagesAndAssets ==
    /\ run.pc = "returned"
    /\ MetadataFile \in DOMAIN disk.files
    /\ run.savedCount = 2
    /\ Len(assetUrls) > 1
    /\ run.assetIndex = Len(assetUrls)
    /\ fileManager.assetCount > 0
    /\ disk.files[MetadataFile].meta[1].pagesCount = 2

(* The step runs the outer catch block, which calls cleanupFailedSnapshot. *)
CleanupStep == run'.cleanups > run.cleanups

(* Everything d holds at or below dir is in e with the same content. *)
KeptBelow(dir, d, e) ==
    /\ \A p \in d.dirs : IsPrefix(dir, p) => p \in e.dirs
    /\ \A p \in DOMAIN d.files :
          IsPrefix(dir, p) => (p \in DOMAIN e.files /\ e.files[p] = d.files[p])

(* C26: cleanupFailedSnapshot() never deletes a snapshot directory that    *)
(* holds two or more entries; a snapshot in which a page or an asset has   *)
(* been saved is never removed when a run aborts.                          *)
CleanupKeepsFilledSnapshot ==
    /\ [][(CleanupStep
           /\ Cardinality(readdirSync(disk, fileManager.snapshotDir)) >= 2)
          => KeptBelow(fileManager.snapshotDir, disk, disk')]_vars
    /\ [][(CleanupStep /\ (fileManager.pageCount > 0 \/ fileManager.assetCount > 0))
          => (/\ fileManager.snapshotDir \in disk'.dirs
              /\ KeptBelow(fileManager.snapshotDir, disk, disk'))]_vars

(* The run was aborted after the front page and an asset had been saved,   *)
(* and both are still in the snapshot.                                     *)
KeptAfterAbort ==
    /\ run.cleanups = 1
    /\ run.pc = "returned"
    /\ fileManager.pageCount > 0
    /\ fileManager.assetCount > 0
    /\ Append(fileManager.snapshotDir, "index.html") \in DOMAIN disk.files
    /\ Cardinality(readdirSync(disk, fileManager.snapshotDir)) > 4

(* The page URLs extractUrls finds on a crawled page. *)
LinksOf(page) == extractUrls(config, page.html, page.url).urls

(* C27: the depth recorded for a URL is fixed when the URL is first        *)
(* enqueued: no step removes a URL from the depth map or changes the depth *)
(* stored for it, also not for a URL that was discarded for its depth.     *)
DepthFixedAtFirstEnqueue ==
    [][\A u \in DOMAIN urlDepthMap :
          u \in DOMAIN urlDepthMap' /\ urlDepthMap'[u] = urlDepthMap[u]]_vars

(* A page crawled at depth 1 or more links to a URL recorded earlier, and  *)
(* the URL still has the smaller depth of its first enqueue.               *)
FoundAgainKeepsDepth ==
    \E i \in DOMAIN crawledPages :
        /\ crawledPages[i].depth >= 1
        /\ \E k \in DOMAIN LinksOf(crawledPages[i]) :
              LET u == LinksOf(crawledPages[i])[k]
              IN  /\ u \in DOMAIN urlDepthMap
                  /\ urlDepthMap[u] <= crawledPages[i].depth
                  /\ u # crawledPages[i].url

(* The numbers of the sequence never decrease. *)
NonDecreasing(depths) ==
    \A i, j \in DOMAIN depths : i <= j => depths[i] <= depths[j]

(* C28: URLs are dequeued and fetched in the order of their first enqueue: *)
(* a step that takes a URL takes the oldest pending one, every other step, *)
(* retries included, leaves the pending URLs in place and adds new ones    *)
(* behind them; the depths of the crawled pages, in crawl order, never     *)
(* decrease.                                                               *)
FifoCrawlOrder ==
    /\ [][IF Len(queuedUrls') < Len(queuedUrls)
          THEN /\ queuedUrls' = Tail(queuedUrls)
               /\ pc' = "fetch" => cur'.url = Head(queuedUrls)
          ELSE /\ SubSeq(queuedUrls', 1, Len(queuedUrls)) = queuedUrls
               /\ (pc = "fetch" /\ pc' = "fetch") => cur'.url = cur.url]_vars
    /\ [](NonDecreasing([i \in DOMAIN crawledPages |-> crawledPages[i].depth]))
    /\ [](NonDecreasing([i \in DOMAIN queuedUrls |->
                           getDepthForUrl(urlDepthMap, queuedUrls[i])]))

(* Pages of depth 0, 1 and 2 were crawled in this order, one of them after *)
(* a failed attempt, while URLs were pending.                              *)
CrawledBreadthFirstWithRetry ==
    /\ Len(crawledPages) >= 3
    /\ crawledPages[1].depth = 0
    /\ crawledPages[Len(crawledPages)].depth = 2
    /\ \E i \in DOMAIN crawledPages : LogOf(crawledPages[i].url).throws > 0
    /\ Len(queuedUrls) > 0

(* fetchPage has been called for cur.url and has not returned: a GET, or   *)
(* the backoff before its next attempt, is awaited.                        *)
RequestOutstanding == pc = "fetch"

(* C29: at most one request of the crawl is in flight: while fetchPage is  *)
(* awaited the URL it fetches stays the same through all its attempts and  *)
(* no URL is dequeued; the visited set and the asset hash map are not      *)
(* changed while the request is outstanding, and the pending queue changes *)
(* only in the step that ends it.                                          *)
OneRequestAtATime ==
    /\ [][(RequestOutstanding /\ RequestOutstanding')
          => (/\ cur'.url = cur.url
              /\ cur'.attempt = cur.attempt + 1
              /\ queuedUrls' = queuedUrls)]_vars
    /\ [][RequestOutstanding
          => (/\ visitedUrls' = visitedUrls
              /\ fileManager'.assetMap = fileManager.assetMap
              /\ Len(queuedUrls') >= Len(queuedUrls)
              /\ processedCount' = processedCount)]_vars
    /\ [][(visitedUrls' # visitedUrls \/ Len(queuedUrls') < Len(queuedUrls))
          => (pc = "loop" /\ cur = NoCur)]_vars
    /\ [](RequestOutstanding
            => (cur.url \in visitedUrls /\ ~Has(queuedUrls, cur.url)))
    /\ [](~RequestOutstanding => cur = NoCur)

(* A second attempt for a URL is awaited while other URLs are pending. *)
RetryingWhileUrlsPending ==
    /\ RequestOutstanding
    /\ cur.attempt > 0
    /\ Len(queuedUrls) > 0
    /\ Len(crawledPages) > 0

(* The step is a call of savePage that returns. *)
SavePageReturns == CallsOneOf({"savePage"}) /\ result'.outcome = "returned"

(* The relative path the documentation gives for a page URL. *)
DocumentedPagePath(url) ==
    LET segs == IF url.path # <<>> /\ url.path[Len(url.path)] = ""
                THEN SubSeq(url.path, 1, Len(url.path) - 1)
                ELSE url.path
    IN  CASE ~url.valid  -> <<"pages", "d41d.html">>
          [] url.valid /\ segs = <<>> -> <<"index.html">>
          [] url.valid /\ segs # <<>> /\ ExtOf(segs[Len(segs)]) = "" ->
                 segs \o <<"index.html">>
          [] OTHER -> segs

(* C30: savePage writes the page under a relative path that depends only   *)
(* on the URL: index.html for the site root, <path>/index.html for a path  *)
(* without a file extension (a trailing slash ignored), the path itself    *)
(* when it has an extension, pages/<hash>.html for an unparsable URL; each *)
(* call that returns adds exactly one to the page counter, and a call that *)
(* throws adds nothing.                                                    *)
PageSavedAtDocumentedPath ==
    /\ [][SavePageReturns
          => LET filePath == DocumentedPagePath(result'.call.url)
             IN  /\ result'.value.relPath = filePath
                 /\ result'.value.fullPath = fileManager.snapshotDir \o filePath
                 /\ result'.value.fullPath \in DOMAIN disk'.files
                 /\ fileManager'.pageCount = fileManager.pageCount + 1]_vars
    /\ [][(fileManager'.pageCount # fileManager.pageCount) => SavePageReturns]_vars

(* /files/logo.png, the site root and /about/ were saved, the last under   *)
(* about/index.html.                                                       *)
ThreePagesSaved ==
    /\ fileManager.pageCount = 3
    /\ result.call.method = "savePage"
    /\ result.call.url.path = <<"about", "">>
    /\ result.value.relPath = <<"about", "index.html">>
    /\ fileManager.snapshotDir \o <<"files", "logo.png">> \in DOMAIN disk.files
    /\ fileManager.snapshotDir \o <<"index.html">> \in DOMAIN disk.files
    /\ fileManager.snapshotDir \o <<"about", "index.html">> \in DOMAIN disk.files

(***************************************************************************)
(* Properties of PostProcessor.process.                                    *)
(***************************************************************************)
(* process has returned. *)
Processed == processor.at = "returned"

(* What process returns for the markup that consists of the node n. *)
ProcessedAlone(n) == process(<<n>>, processor.siteDomain)

(* All nodes of a document, at any depth. *)
RECURSIVE AllNodes(_)
AllNodes(nodes) ==
    IF nodes = <<>> THEN {}
    ELSE {Head(nodes)} \cup AllNodes(Head(nodes).kids) \cup AllNodes(Tail(nodes))

(* The same-domain test as documented for the rewriting of URLs: the       *)
(* hostnames are compared without a leading www., the site's without its   *)
(* port.                                                                   *)
SameSiteAsDocumented(ref) ==
    ref.kind = "absolute" /\ StripWww(ref.host) = StripWww(processor.siteDomain.name)

(* An anchor whose href is an absolute URL of the site with an            *)
(* administrative path.                                                    *)
IsSiteAdminAnchor(n) ==
    /\ n.tag = "a"
    /\ SameSiteAsDocumented(n.ref)
    /\ n.ref.path # <<>>
    /\ \/ n.ref.path[1] \in {"admin", "edit", "delete", "revisions"}
       \/ /\ Len(n.ref.path) >= 2
          /\ n.ref.path[1] = "user"
          /\ n.ref.path[2] \in {"login", "logout"}

(* C31: process applies sanitize, rewrite URLs, replace experiment         *)
(* elements, remove admin chrome and cosmetic cleanup in this order; an    *)
(* anchor whose href is an absolute same-domain URL with an administrative *)
(* path is removed from the output, and when its parent is a list item the *)
(* list item is removed instead.                                           *)
SiteAdminAnchorsRemoved ==
    Processed =>
        /\ processor.dom = process(processor.html, processor.siteDomain)
        /\ \A i \in DOMAIN processor.html :
              LET n == processor.html[i]
              IN  /\ IsSiteAdminAnchor(n) => ProcessedAlone(n) = <<>>
                  /\ (n.tag = "li" /\ \E k \in DOMAIN n.kids : IsSiteAdminAnchor(n.kids[k]))
                        => ProcessedAlone(n) = <<>>

(* The text contains the marker token "jatos" in some letter case. *)
ContainsMarkerInAnyCase(s) == ContainsJatos(ToLowerCase(s))

(* An iframe whose src or class, a form whose action or class, or an       *)
(* anchor whose href or text contains the marker in some letter case.      *)
IsExperimentElement(n) ==
    /\ n.tag \in {"iframe", "form", "a"}
    /\ \/ \E k \in DOMAIN SegsOf(n.ref) : ContainsMarkerInAnyCase(SegsOf(n.ref)[k])
       \/ n.tag \in {"iframe", "form"} /\ ContainsMarkerInAnyCase(n.cls)
       \/ n.tag = "a" /\ ContainsMarkerInAnyCase(n.text)

(* C32: an iframe whose src or class, a form whose action or class and an  *)
(* anchor whose href or text contains the marker token are replaced by the *)
(* informational block, whatever the letter case of the marker.            *)
ExperimentElementsReplaced ==
    Processed =>
        \A i \in DOMAIN processor.html :
            IsExperimentElement(processor.html[i])
                => ProcessedAlone(processor.html[i]) = <<JatosReplacement>>

(* C33: the markup process returns holds no comment node, no empty         *)
(* paragraph or div element and no align, valign or bgcolor attribute.     *)
OutputCleanedUp ==
    (Processed /\ Truthy(processor.html)) =>
        \A n \in AllNodes(processor.dom) :
            /\ n.tag # "#comment"
            /\ n.tag \in {"p", "div"} => ~IsEmpty(n)
            /\ n.attrs \cap LayoutAttributes = {}

(***************************************************************************)
(* Properties of a failing link extraction.                                *)
(***************************************************************************)
(* The step in which a fetched page whose markup cannot be loaded is       *)
(* handled.                                                                *)
ExtractionFails ==
    /\ pc = "fetch"
    /\ Len(crawledPages') > Len(crawledPages)
    /\ LoadThrows(crawledPages'[Len(crawledPages')].html)

(* C34: a page fetched with status 200 whose link extraction fails is      *)
(* pushed to the crawled pages; the step adds no pending URL and no asset  *)
(* URL, records no failure and returns to the loop, and the page's URL is  *)
(* never in the failed list.                                               *)
ExtractionFailureKeepsPage ==
    /\ [][ExtractionFails =>
            /\ SubSeq(crawledPages', 1, Len(crawledPages)) = crawledPages
            /\ Len(crawledPages') = Len(crawledPages) + 1
            /\ crawledPages'[Len(crawledPages')].url = cur.url
            /\ crawledPages'[Len(crawledPages')].status = "200"
            /\ queuedUrls' = queuedUrls
            /\ urlDepthMap' = urlDepthMap
            /\ assetUrls' = assetUrls
            /\ failedUrls' = failedUrls
            /\ pc' = "loop"]_vars
    /\ [](\A i \in DOMAIN crawledPages :
             LoadThrows(crawledPages[i].html) =>
                 \A j \in DOMAIN failedUrls : failedUrls[j].url # crawledPages[i].url)

(* A page is crawled after one whose link extraction failed. *)
CrawledAfterExtractionFailure ==
    \E i, j \in DOMAIN crawledPages :
        /\ i < j
        /\ LoadThrows(crawledPages[i].html)
        /\ ~LoadThrows(crawledPages[j].html)
        /\ crawledPages[j].html # <<>>

(***************************************************************************)
(* Properties of the outcome of a processed URL.                           *)
(***************************************************************************)
PageEntries(u) == {i \in DOMAIN crawledPages : crawledPages[i].url = u}
FailedEntries(u) == {i \in DOMAIN failedUrls : failedUrls[i].url = u}

(* The URLs the loop is done with: the visited ones, without the one whose *)
(* fetchPage has not returned yet.                                         *)
ProcessedUrls == {u \in visitedUrls : ~(pc = "fetch" /\ u = cur.url)}

(* The processed URLs that are neither a crawled page nor a failure. *)
BinaryOutcomes == {u \in ProcessedUrls : PageEntries(u) = {} /\ FailedEntries(u) = {}}

(* C35: a processed URL is a crawled page, a binary asset (then it is in   *)
(* the asset-URL set) or a recorded failure, and only one of them; it is   *)
(* at most once in the crawled pages and at most once in the failed list,  *)
(* both lists hold processed URLs only, and the number of processed URLs   *)
(* is the number of pages plus binary outcomes plus failures.              *)
OneOutcomePerUrl ==
    /\ \A u \in ProcessedUrls :
          /\ Cardinality(PageEntries(u)) <= 1
          /\ Cardinality(FailedEntries(u)) <= 1
          /\ ~(PageEntries(u) # {} /\ FailedEntries(u) # {})
          /\ u \in BinaryOutcomes => Has(assetUrls, u)
    /\ \A i \in DOMAIN crawledPages : crawledPages[i].url \in ProcessedUrls
    /\ \A i \in DOMAIN failedUrls : failedUrls[i].url \in ProcessedUrls
    /\ Cardinality(ProcessedUrls) =
           Len(crawledPages) + Cardinality(BinaryOutcomes) + Len(failedUrls)

(* crawl() has returned with a page, a binary asset and a failure. *)
ReturnedWithThreeOutcomes ==
    /\ pc = "done"
    /\ Len(crawledPages) > 0
    /\ BinaryOutcomes # {}
    /\ Len(failedUrls) > 0

(***************************************************************************)
(* Properties of the asset counter.                                        *)
(***************************************************************************)
(* The step is a call of saveAssetAtPath or saveAsset. *)
AssetSaveCalled ==
    /\ run'.calls = run.calls + 1
    /\ result'.call.method \in {"saveAssetAtPath", "saveAsset"}

(* The call of the step stored its content. *)
AssetStored ==
    /\ result'.outcome = "returned"
    /\ Md5(result'.call.bytes) \notin DOMAIN fileManager.assetMap

(* C36: on one FileManager the asset counter is the number of entries of   *)
(* the content-hash map, and the entries are the hashes of the distinct    *)
(* contents accepted so far; a call that stores its content adds one       *)
(* entry and one to the counter, every other call (rejected path,          *)
(* content known, write failed) changes neither.                           *)
AssetCountIsMapSize ==
    /\ [](/\ fileManager.assetCount = Cardinality(DOMAIN fileManager.assetMap)
          /\ DOMAIN fileManager.assetMap = {Md5(b) : b \in DOMAIN run.firstRecord}
          /\ fileManager.assetCount = Cardinality(DOMAIN run.firstRecord))
    /\ [][AssetSaveCalled =>
            IF AssetStored
            THEN /\ fileManager'.assetCount = fileManager.assetCount + 1
                 /\ DOMAIN fileManager'.assetMap =
                        DOMAIN fileManager.assetMap \cup {Md5(result'.call.bytes)}
            ELSE /\ fileManager'.assetCount = fileManager.assetCount
                 /\ fileManager'.assetMap = fileManager.assetMap]_vars

(* Two contents are stored, and saveAsset has answered with the record     *)
(* saveAssetAtPath stored for the same content.                            *)
TwoStoredOneDeduplicated ==
    /\ fileManager.assetCount = 2
    /\ result.call.method = "saveAsset"
    /\ result.outcome = "returned"
    /\ result.value.shape = "atPath"

(***************************************************************************)
(* Properties of the counters in the metadata record.                      *)
(***************************************************************************)
(* The record in .metadata.json. *)
MetadataRecord == disk.files[MetadataFile].meta[1]

(* C37: in the metadata record of a run downloadedAssets, the counter of   *)
(* the asset loop, equals assetsCount, the number of asset files written,  *)
(* and savedPages equals pagesCount.                                       *)
MetadataCountersAgree ==
    (MetadataFile \in DOMAIN disk.files) =>
        /\ MetadataRecord.downloadedAssets = MetadataRecord.assetsCount
        /\ MetadataRecord.savedPages = MetadataRecord.pagesCount

(***************************************************************************)
(* Properties of the page files of a run.                                  *)
(***************************************************************************)
(* The files of the disk that hold a saved page. *)
PageFiles == {p \in DOMAIN disk.files : disk.files[p].kind = "page"}

=============================================================================
